---------------------------- MODULE Spec2Model ----------------------------
(***************************************************************************)
(* Chanomhub SDK: the transport layer (createGraphQLClient /               *)
(* createRestClient) with the domain repositories built on it, the web     *)
(* auth repository (createAuthRepository), the native auth methods         *)
(* (createNativeAuthRepository) and the utility functions.                 *)
(*                                                                         *)
(* Four specifications share this module:                                  *)
(*   Spec        one SDK client issuing fetcher and repository calls       *)
(*   AuthSpec    one auth repository with concurrently issued operations   *)
(*   NativeSpec  the native sign-in and token exchange, one call at a time *)
(*   UtilSpec    buildFieldsQuery, resolveImageUrl, transformImageUrlsDeep *)
(***************************************************************************)
EXTENDS Integers, Sequences, FiniteSets, TLC

VARIABLES
    config,       \* the ChanomhubConfig the fetchers close over (immutable)
    origin,       \* the factory call that built the client (immutable)
    pc,           \* position of the current transport call
    call,         \* arguments of the current transport call
    request,      \* <<>> or <<RequestInit handed to fetch>>
    response,     \* <<>> or <<outcome of the underlying fetch>>
    result,       \* <<>> or <<value / rejection the call completed with>>
    transformed,  \* transformImageUrlsDeep returned a value in the current call
    fetches,      \* number of times the current call invoked fetch
    callsMade,    \* number of transport calls started so far
    rcall,        \* <<>> or <<the repository operation that issued the current call>>
    rout,         \* <<>> or <<what that repository operation completed with>>
    supabaseClientPromise, \* the memoized promise of createAuthRepository
    tryCount,     \* number of times tryGetSupabaseClient ran
    ops,          \* operations issued on the auth repository
    idpSession,   \* session held by the identity provider SDK
    redirects,    \* provider redirects issued by signInWithOAuth
    backendCalls, \* requests the auth repository sent to the backend fetcher
    nativeBuild,     \* which source of the native methods the build contains
    sdkInstalled,    \* react-native-app-auth can be resolved by the build
    sdkLoaded,       \* react-native-app-auth has been loaded
    entry,           \* loading state of the module holding the native methods
    npc,             \* position of the current native call
    ncall,           \* arguments of the current native call
    authorizeCall,   \* <<>> or <<authConfig handed to authorize>>
    oauthResult,     \* <<>> or <<argument exchangeOAuthToken ran with>>
    nativeFetch,     \* <<>> or <<request handed to the backend fetcher>>
    nresult,         \* <<>> or <<value / error the native call completed with>>
    nativeCallsMade, \* number of native calls started so far
    ucall,           \* <<>> or <<the utility function applied and its arguments>>
    uout             \* <<>> or <<the value the utility function returned>>

tvars == <<config, origin, pc, call, request, response, result, transformed, fetches,
           callsMade, rcall, rout>>
avars == <<supabaseClientPromise, tryCount, ops, idpSession, redirects, backendCalls>>
nvars == <<nativeBuild, sdkInstalled, sdkLoaded, entry, npc, ncall, authorizeCall,
           oauthResult, nativeFetch, nresult, nativeCallsMade>>
uvars == <<ucall, uout>>
vars == <<config, origin, pc, call, request, response, result, transformed, fetches,
          callsMade, rcall, rout,
          supabaseClientPromise, tryCount, ops, idpSession, redirects, backendCalls,
          nativeBuild, sdkInstalled, sdkLoaded, entry, npc, ncall, authorizeCall,
          oauthResult, nativeFetch, nresult, nativeCallsMade, ucall, uout>>

-----------------------------------------------------------------------------
(* Bounds *)

MaxCalls == 2
MaxOps == 2
MaxNativeCalls == 2

(* Optional values: <<>> is undefined / absent, <<x>> is the value x *)
None == <<>>
Some(x) == <<x>>
IsSome(o) == o # <<>>
Val(o) == o[1]

(* a ?? b *)
Coalesce(a, b) == IF IsSome(a) THEN a ELSE b

-----------------------------------------------------------------------------
(* JSON values, as JavaScript sees them after JSON.parse *)

JNull == [t |-> "null"]
JUndef == [t |-> "undefined"]
JStr(s) == [t |-> "str", v |-> s]
JObj(o) == [t |-> "obj", o |-> o]
JArr(a) == [t |-> "arr", a |-> a]
JNum(n) == [t |-> "num", v |-> n]

(* JavaScript truthiness of a JSON value *)
Truthy(v) ==
    CASE v.t = "null" -> FALSE
      [] v.t = "undefined" -> FALSE
      [] v.t = "str" -> v.v # ""
      [] v.t = "num" -> v.v # 0
      [] OTHER -> TRUE

(* v.k for a non-nullish v (a property read of null/undefined throws) *)
Get(v, k) == IF v.t = "obj" /\ k \in DOMAIN v.o THEN v.o[k] ELSE JUndef

Nullish(v) == v.t \in {"null", "undefined"}


-----------------------------------------------------------------------------
(* Asset URL Resolver and Deep Transform Pass (transforms/imageUrl) *)

StartsWith(s, prefix) ==
    Len(s) >= Len(prefix) /\ SubSeq(s, 1, Len(prefix)) = prefix

(* resolveImageUrl concatenating without the '/' separator *)
resolveImageUrlWithoutSeparator(v, cdnUrl) ==
    IF v.t # "str" THEN JNull
    ELSE IF StartsWith(v.v, "http://") \/ StartsWith(v.v, "https://") THEN v
    ELSE JStr(cdnUrl \o v.v)

(* resolveImageUrl on a JSON value: nullish -> null, absolute URL kept,
   any other string prefixed with the CDN base *)
resolveImageUrl(v, cdnUrl) ==
    IF v.t # "str" THEN JNull
    ELSE IF StartsWith(v.v, "http://") \/ StartsWith(v.v, "https://") THEN v
    ELSE JStr(cdnUrl \o "/" \o v.v)

IMAGE_FIELDS == {"mainImage", "coverImage", "backgroundImage", "image"}

RECURSIVE transformImageUrlsDeep(_, _)
(* transformImagesElement prefixing every string url, absolute ones included *)
transformImagesElementPrefixingAbsolute(e, cdnUrl) ==
    IF e.t = "obj" /\ "url" \in DOMAIN e.o
    THEN JObj([k \in DOMAIN e.o |->
                 IF k = "url" /\ e.o[k].t = "str" THEN JStr(cdnUrl \o "/" \o e.o[k].v)
                 ELSE e.o[k]])
    ELSE transformImageUrlsDeep(e, cdnUrl)

(* one element of an array field named "images" *)
transformImagesElement(e, cdnUrl) ==
    IF e.t = "obj" /\ "url" \in DOMAIN e.o
    THEN JObj([k \in DOMAIN e.o |->
                 IF k = "url" THEN resolveImageUrl(e.o[k], cdnUrl) ELSE e.o[k]])
    ELSE transformImageUrlsDeep(e, cdnUrl)

(* one field of an object *)
transformField(k, v, cdnUrl) ==
    IF k \in IMAGE_FIELDS /\ v.t = "str" THEN resolveImageUrl(v, cdnUrl)
    ELSE IF k = "images" /\ v.t = "arr"
    THEN JArr([i \in 1..Len(v.a) |-> transformImagesElement(v.a[i], cdnUrl)])
    ELSE transformImageUrlsDeep(v, cdnUrl)

transformImageUrlsDeep(v, cdnUrl) ==
    CASE v.t = "arr" -> JArr([i \in 1..Len(v.a) |-> transformImageUrlsDeep(v.a[i], cdnUrl)])
      [] v.t = "obj" -> JObj([k \in DOMAIN v.o |-> transformField(k, v.o[k], cdnUrl)])
      [] OTHER -> v

-----------------------------------------------------------------------------
(* Transport layer: request construction (client.ts) *)

API_URL == "https://api.chanomhub.online"
CDN_URL == "https://cdn.chanomhub.com"

(* `if (config.token)`: an absent or empty token is falsy *)
TokenPresent(cfg) == IsSome(cfg.token) /\ Val(cfg.token) # ""

BaseHeaders == [h \in {"Content-Type", "Accept"} |-> "application/json"]

(* headers of graphqlFetch *)
GraphqlHeaders(cfg) ==
    IF TokenPresent(cfg)
    THEN BaseHeaders @@ ("Authorization" :> ("Bearer " \o Val(cfg.token)))
    ELSE BaseHeaders

(* headers of restFetch without the bearer injection *)
RestHeadersWithoutAuth(cfg) == BaseHeaders

(* headers of restFetch *)
RestHeaders(cfg) ==
    IF TokenPresent(cfg)
    THEN BaseHeaders @@ ("Authorization" :> ("Bearer " \o Val(cfg.token)))
    ELSE BaseHeaders

(* JSON.stringify throws a TypeError on a BigInt or a circular structure *)
Serializable(obj) == obj \notin {"bigint", "circular"}

StringifyError == [isError |-> TRUE, message |-> "Do not know how to serialize a BigInt"]

(* useCache without the token test *)
useCacheIgnoringToken(options, cfg) ==
    ~(IsSome(options.noCache) /\ Val(options.noCache))

(* const useCache = !options.noCache && !config.token *)
useCache(options, cfg) ==
    /\ ~(IsSome(options.noCache) /\ Val(options.noCache))
    /\ ~TokenPresent(cfg)

FallbackCacheSeconds == 3600

(* options.cacheSeconds ?? config.defaultCacheSeconds ?? 3600 *)
cacheSeconds(options, cfg) ==
    Val(Coalesce(Coalesce(options.cacheSeconds, cfg.defaultCacheSeconds),
                 Some(FallbackCacheSeconds)))

(* fetchOptions.cache of graphqlFetch: <<"no-store">> or left unset *)
GraphqlCache(options, cfg) ==
    IF ~useCache(options, cfg) \/ cacheSeconds(options, cfg) = 0
    THEN Some("no-store")
    ELSE None

(* the body object of graphqlFetch before JSON.stringify *)
GraphqlBody(query, variables, options) ==
    [query |-> query,
     variables |-> variables,
     operationName |-> IF IsSome(options.operationName) /\ Val(options.operationName) # ""
                       THEN options.operationName ELSE None]

GraphqlRequest(query, variables, options, cfg) ==
    [url |-> cfg.apiUrl \o "/api/graphql",
     method |-> "POST",
     headers |-> GraphqlHeaders(cfg),
     body |-> Some(GraphqlBody(query, variables, options)),
     cache |-> GraphqlCache(options, cfg)]

(* restFetch disabling storage for mutating methods only *)
RestCacheMutationsOnly(method, cfg) ==
    IF method = "GET" THEN None ELSE Some("no-store")

(* fetchOptions.cache of restFetch *)
RestCache(method, cfg) == Some("no-store")

(* const { method = 'GET', body } = options *)
RestMethod(options) == Val(Coalesce(options.method, Some("GET")))

RestRequest(endpoint, options, cfg) ==
    [url |-> cfg.apiUrl \o endpoint,
     method |-> RestMethod(options),
     headers |-> RestHeaders(cfg),
     body |-> options.body,
     cache |-> RestCache(RestMethod(options), cfg)]

-----------------------------------------------------------------------------
(* Transport layer: response handling (client.ts) *)

(* res.ok *)
Ok(status) == status >= 200 /\ status <= 299

(* `error instanceof Error ? error.message : 'Unknown error'` *)
CatchMessage(e) == IF e.isError THEN e.message ELSE "Unknown error"

BodyReadError == [isError |-> TRUE, message |-> "terminated"]
JsonSyntaxError == [isError |-> TRUE, message |-> "Unexpected token < in JSON at position 0"]
NullReadError == [isError |-> TRUE, message |-> "Cannot read properties of null (reading 'errors')"]
StackError == [isError |-> TRUE, message |-> "Maximum call stack size exceeded"]

HttpMessage(res) == "HTTP " \o ToString(res.status) \o ": " \o res.statusText

ErrorEntry(message) == JObj([message |-> JStr(message)])

(* the recursive transform overflows the stack on a payload nested too deep *)
TransformThrows(payload, body) == body.deep /\ payload.t \in {"obj", "arr"}

(* what a completed call hands to its caller *)
Returned(value, didTransform) ==
    [kind |-> "returned", value |-> value, transformed |-> didTransform]
Rejected(e) ==
    [kind |-> "rejected", value |-> e, transformed |-> FALSE]

(* the catch block of graphqlFetch *)
GraphqlCatch(e, didTransform) ==
    Returned([data |-> JNull, errors |-> JArr(<<ErrorEntry(CatchMessage(e))>>)],
             didTransform)

(* the errors branch returning the response's data next to its errors *)
GraphqlErrorsResultKeepingData(json) ==
    [kind |-> "returned",
     value |-> [data |-> Get(json, "data"), errors |-> Get(json, "errors")],
     transformed |-> FALSE]

(* the errors branch replacing the provider's errors by one synthetic entry *)
GraphqlErrorsResultSynthetic(json) ==
    [kind |-> "returned",
     value |-> [data |-> JNull, errors |-> JArr(<<ErrorEntry("GraphQL error")>>)],
     transformed |-> FALSE]

(* the errors branch of graphqlFetch: return { data: null, errors: json.errors } *)
GraphqlErrorsResult(json) ==
    Returned([data |-> JNull, errors |-> Get(json, "errors")], FALSE)

(* the success path returning json.data as received *)
GraphqlSuccessDataRaw(json, cfg) == Get(json, "data")

(* the success path of graphqlFetch *)
GraphqlSuccessData(json, cfg) == transformImageUrlsDeep(Get(json, "data"), cfg.cdnUrl)

(* graphqlFetch after `await fetch(...)` resolved with res *)
GraphqlOnResponse(res, cfg) ==
    IF ~Ok(res.status)
    THEN IF res.body.k = "unreadable"
         THEN GraphqlCatch(BodyReadError, FALSE)
         ELSE Returned([data |-> JNull,
                        errors |-> JArr(<<ErrorEntry(HttpMessage(res))>>)], FALSE)
    ELSE IF res.body.k = "unreadable" THEN GraphqlCatch(BodyReadError, FALSE)
    ELSE IF res.body.k = "invalid" THEN GraphqlCatch(JsonSyntaxError, FALSE)
    ELSE IF Nullish(res.body.v) THEN GraphqlCatch(NullReadError, FALSE)
    ELSE IF Truthy(Get(res.body.v, "errors")) THEN GraphqlErrorsResult(res.body.v)
    ELSE IF TransformThrows(Get(res.body.v, "data"), res.body)
         THEN GraphqlCatch(StackError, FALSE)
    ELSE Returned([data |-> GraphqlSuccessData(res.body.v, cfg), errors |-> JUndef], TRUE)

(* the catch block of restFetch *)
RestCatch(e, didTransform) ==
    Returned([data |-> JNull, error |-> JStr(CatchMessage(e))], didTransform)

(* the success path of restFetch *)
RestSuccessData(json, cfg) == transformImageUrlsDeep(json, cfg.cdnUrl)

(* restFetch without the 204 branch: every success body is parsed *)
RestOnResponseParsingNoContent(res, cfg) ==
    IF ~Ok(res.status)
    THEN IF res.body.k = "unreadable"
         THEN RestCatch(BodyReadError, FALSE)
         ELSE Returned([data |-> JNull, error |-> JStr(HttpMessage(res))], FALSE)
    ELSE IF res.body.k = "unreadable" THEN RestCatch(BodyReadError, FALSE)
    ELSE IF res.body.k = "invalid" THEN RestCatch(JsonSyntaxError, FALSE)
    ELSE IF TransformThrows(res.body.v, res.body) THEN RestCatch(StackError, FALSE)
    ELSE Returned([data |-> RestSuccessData(res.body.v, cfg), error |-> JUndef], TRUE)

(* restFetch after `await fetch(...)` resolved with res *)
RestOnResponse(res, cfg) ==
    IF ~Ok(res.status)
    THEN IF res.body.k = "unreadable"
         THEN RestCatch(BodyReadError, FALSE)
         ELSE Returned([data |-> JNull, error |-> JStr(HttpMessage(res))], FALSE)
    ELSE IF res.status = 204 THEN Returned([data |-> JNull, error |-> JUndef], FALSE)
    ELSE IF res.body.k = "unreadable" THEN RestCatch(BodyReadError, FALSE)
    ELSE IF res.body.k = "invalid" THEN RestCatch(JsonSyntaxError, FALSE)
    ELSE IF TransformThrows(res.body.v, res.body) THEN RestCatch(StackError, FALSE)
    ELSE Returned([data |-> RestSuccessData(res.body.v, cfg), error |-> JUndef], TRUE)

-----------------------------------------------------------------------------
(* Inputs of the transport layer *)

Tokens == {None, Some(""), Some("jwt")}
DefaultCacheInputs == {None, Some(0), Some(300)}

(* Partial<ChanomhubConfig> overrides handed to a factory: <<>> is a key the
   caller left out *)
Overrides ==
    [token : {None, Some("other-jwt")},
     defaultCacheSeconds : {None, Some(300)}]

NoOverrides == [token |-> None, defaultCacheSeconds |-> None]

(* the token argument of createAuthenticatedClient (a string) *)
TokenArguments == {"", "jwt"}

(* object spread { ...a, ...b }: a key present in b wins *)
Spread(a, b) ==
    [k \in DOMAIN a \cup DOMAIN b |->
        IF k \in DOMAIN b /\ (k \in DOMAIN a => IsSome(b[k])) THEN b[k] ELSE a[k]]

(* DEFAULT_CONFIG of config.ts, as documented at createChanomhubClient *)
DEFAULT_CONFIG ==
    [apiUrl |-> API_URL, cdnUrl |-> CDN_URL, token |-> None,
     defaultCacheSeconds |-> Some(FallbackCacheSeconds),
     supabaseUrl |-> None, supabaseAnonKey |-> None]

(* createChanomhubClient(config): fullConfig = { ...DEFAULT_CONFIG, ...config } *)
createChanomhubClient(overrides) == Spread(DEFAULT_CONFIG, overrides)

createAuthenticatedClientOverridable(token, overrides) ==
    createChanomhubClient(
        Spread([token |-> Some(token), defaultCacheSeconds |-> Some(0)], overrides))

(* createAuthenticatedClient(token, config):
   createChanomhubClient({ ...config, token, defaultCacheSeconds: 0 }) *)
createAuthenticatedClient(token, overrides) ==
    createChanomhubClient(
        Spread(overrides, [token |-> Some(token), defaultCacheSeconds |-> Some(0)]))

TransportConfigs ==
    [apiUrl : {API_URL}, cdnUrl : {CDN_URL}, token : Tokens,
     defaultCacheSeconds : DefaultCacheInputs,
     supabaseUrl : {None}, supabaseAnonKey : {None}]

VariablesInputs == {"plain", "bigint"}

GraphqlOptions ==
    [operationName : {None, Some("GetArticles")},
     cacheSeconds : {None, Some(0), Some(60)},
     noCache : {None, Some(FALSE), Some(TRUE)}]

RestOptions ==
    [method : {None, Some("GET"), Some("POST"), Some("PUT"), Some("DELETE")},
     body : {None, Some("plain"), Some("circular")}]

ArticleJson ==
    JObj([mainImage |-> JStr("article1.jpg"),
          title |-> JStr("Test Article 1"),
          author |-> JObj([image |-> JStr("john.jpg")]),
          images |-> JArr(<<JObj([url |-> JStr("img1.jpg")])>>)])

ExternalJson == JObj([mainImage |-> JStr("https://external.com/image.jpg")])

ErrX == ErrorEntry("X")
ErrY == ErrorEntry("Y")

JsonBodies ==
    { JNull,
      JObj([data |-> JObj([article |-> ArticleJson])]),
      JObj([data |-> JObj([articles |-> JArr(<<ExternalJson>>)])]),
      JObj([data |-> JNull]),
      JObj([extensions |-> JStr("x")]),
      JObj([errors |-> JArr(<<ErrX>>)]),
      JObj([errors |-> JArr(<<ErrY, ErrX>>), data |-> JObj([article |-> ArticleJson])]),
      JObj([errors |-> JArr(<<>>), data |-> JObj([article |-> ArticleJson])]),
      JObj([errors |-> JNull, data |-> ExternalJson]),
      JObj([user |-> JObj([image |-> JStr("me.jpg")])]),
      JObj([profile |-> JObj([image |-> JStr("john.jpg")])]),
      JArr(<<ArticleJson, ExternalJson>>) }

Bodies ==
    { [k |-> "unreadable", v |-> JNull, deep |-> FALSE],
      [k |-> "invalid", v |-> JNull, deep |-> FALSE] }
    \cup { [k |-> "json", v |-> j, deep |-> FALSE] : j \in JsonBodies }
    \cup { [k |-> "json", v |-> j, deep |-> TRUE] :
             j \in { JObj([data |-> JObj([article |-> ArticleJson])]),
                     JArr(<<ArticleJson, ExternalJson>>) } }

Statuses == {200, 204, 404, 500}

StatusText(status) ==
    CASE status = 200 -> "OK"
      [] status = 204 -> "No Content"
      [] status = 404 -> "Not Found"
      [] OTHER -> "Internal Server Error"

Responses ==
    { [status |-> st, statusText |-> StatusText(st), body |-> b] :
        st \in Statuses, b \in Bodies }

(* what a rejected fetch throws: an Error, an Error without message, a non-Error *)
NetworkErrors ==
    { [isError |-> TRUE, message |-> "fetch failed"],
      [isError |-> TRUE, message |-> ""],
      [isError |-> FALSE, message |-> "aborted"] }

-----------------------------------------------------------------------------
(* Auth repository state before any operation was issued *)

NoPromise == [st |-> "unset", client |-> 0]

IdleOp == [kind |-> "none", pc |-> "idle", skipBrowserRedirect |-> FALSE,
           arg |-> None, client |-> 0, idp |-> "none", session |-> None,
           backend |-> "none", outcome |-> "none"]

AuthIdle ==
    /\ supabaseClientPromise = NoPromise
    /\ tryCount = 0
    /\ ops = [o \in 1..MaxOps |-> IdleOp]
    /\ idpSession = None
    /\ redirects = {}
    /\ backendCalls = <<>>

(* Native methods before any call, their module not yet loaded *)
NativeIdle ==
    /\ sdkLoaded = FALSE
    /\ entry = "unloaded"
    /\ npc = "idle"
    /\ ncall = None
    /\ authorizeCall = None
    /\ oauthResult = None
    /\ nativeFetch = None
    /\ nresult = None
    /\ nativeCallsMade = 0

(* no utility function is being applied *)
UtilIdle ==
    /\ ucall = None
    /\ uout = None

(* a program that does not contain the native methods *)
NativeAbsent ==
    /\ nativeBuild = "none"
    /\ sdkInstalled = FALSE
    /\ NativeIdle

-----------------------------------------------------------------------------
(* Domain repositories over the fetchers (articleRepository.ts,
   searchRepository.ts, users and favorites repositories) *)

(* operations over the GraphQL fetcher, then those over the REST fetcher *)
RepositoryOps ==
    {"articles.getAll", "articles.getAllPaginated", "articles.getByTag",
     "articles.getByPlatform", "articles.getByCategory", "articles.getBySlug",
     "search.articles",
     "users.getCurrentUser", "users.getProfile", "users.follow", "users.unfollow",
     "favorites.add", "favorites.remove"}

(* operations returning an array, a page, one entity *)
ListOps ==
    {"articles.getAll", "articles.getByTag", "articles.getByPlatform",
     "articles.getByCategory"}
PageOps == {"articles.getAllPaginated", "search.articles"}
EntityOps == RepositoryOps \ (ListOps \cup PageOps)

(* the string argument of an operation: a slug, a tag, a username, a search text *)
RepositoryArguments == {"my-game", "a/b c"}

RepositoryCalls ==
    {[op |-> o, arg |-> IF o \in {"articles.getAll", "articles.getAllPaginated",
                                   "users.getCurrentUser"}
                        THEN None ELSE Some(a)] :
        o \in RepositoryOps, a \in RepositoryArguments}

(* encodeURIComponent on the characters of RepositoryArguments *)
RECURSIVE encodeURIComponent(_)
encodeURIComponent(s) ==
    IF Len(s) = 0 THEN ""
    ELSE (CASE SubSeq(s, 1, 1) = "/" -> "%2F"
            [] SubSeq(s, 1, 1) = " " -> "%20"
            [] OTHER -> SubSeq(s, 1, 1))
         \o encodeURIComponent(SubSeq(s, 2, Len(s)))

(* the fetcher call an operation starts with: graphql calls pass the operation
   name as their only option, rest calls a method at most and never a body;
   the variables are strings *)
RepositoryFetch(op, arg) ==
    LET Graphql(name) ==
            [kind |-> "graphql", target |-> "query " \o name, variables |-> "plain",
             options |-> [operationName |-> Some(name), cacheSeconds |-> None,
                          noCache |-> None]]
        Rest(endpoint, method) ==
            [kind |-> "rest", target |-> endpoint, variables |-> "none",
             options |-> [method |-> method, body |-> None]]
    IN CASE op = "articles.getAll" -> Graphql("GetArticles")
         [] op = "articles.getAllPaginated" -> Graphql("GetArticlesPaginated")
         [] op = "articles.getByTag" -> Graphql("GetArticlesByTag")
         [] op = "articles.getByPlatform" -> Graphql("GetArticlesByPlatform")
         [] op = "articles.getByCategory" -> Graphql("GetArticlesByCategory")
         [] op = "articles.getBySlug" -> Graphql("GetArticleBySlug")
         [] op = "search.articles" -> Graphql("SearchArticles")
         [] op = "users.getCurrentUser" -> Rest("/api/user", None)
         [] op = "users.getProfile" ->
              Rest("/api/profiles/" \o encodeURIComponent(Val(arg)), None)
         [] op = "users.follow" ->
              Rest("/api/profiles/" \o encodeURIComponent(Val(arg)) \o "/follow",
                   Some("POST"))
         [] op = "users.unfollow" ->
              Rest("/api/profiles/" \o encodeURIComponent(Val(arg)) \o "/follow",
                   Some("DELETE"))
         [] op = "favorites.add" ->
              Rest("/api/articles/" \o encodeURIComponent(Val(arg)) \o "/favorite",
                   Some("POST"))
         [] op = "favorites.remove" ->
              Rest("/api/articles/" \o encodeURIComponent(Val(arg)) \o "/favorite",
                   Some("DELETE"))

(* a || b *)
JsOr(a, b) == IF Truthy(a) THEN a ELSE b

(* const { limit = 12, offset = 0 } = options *)
DefaultLimit == 12

(* `if (errors || !data)` *)
GraphqlFailed(res) == Truthy(res.errors) \/ ~Truthy(res.data)

RepositoryReturned(value) == [kind |-> "returned", value |-> value]

(* getAll, getByTag, getByPlatform, getByCategory after the fetcher returned *)
ArticleListReturn(res) ==
    IF GraphqlFailed(res) THEN RepositoryReturned(JArr(<<>>))
    ELSE RepositoryReturned(JsOr(Get(res.data, "articles"), JArr(<<>>)))

(* getAllPaginated and search.articles after the fetcher returned *)
PageReturn(res) ==
    IF GraphqlFailed(res)
    THEN RepositoryReturned(JObj([items |-> JArr(<<>>), total |-> JNum(0),
                                  page |-> JNum(1), pageSize |-> JNum(DefaultLimit)]))
    ELSE RepositoryReturned(
             JObj([items |-> JsOr(Get(res.data, "articles"), JArr(<<>>)),
                   total |-> JsOr(Get(res.data, "articlesCount"), JNum(0)),
                   page |-> JNum((0 \div DefaultLimit) + 1),
                   pageSize |-> JNum(DefaultLimit)]))

(* getBySlug after the fetcher returned *)
ArticleReturn(res) ==
    IF GraphqlFailed(res) THEN RepositoryReturned(JNull)
    ELSE RepositoryReturned(JsOr(Get(res.data, "article"), JNull))

(* a users operation passing the fetcher's error on to its caller *)
UserReturnThrowingError(res, field) ==
    IF Truthy(res.error)
    THEN [kind |-> "rejected", value |-> [isError |-> TRUE, message |-> res.error.v]]
    ELSE IF Nullish(res.data) \/ Nullish(Get(res.data, field))
    THEN RepositoryReturned(JNull)
    ELSE RepositoryReturned(Get(res.data, field))

(* getCurrentUser, getProfile, follow, unfollow after the fetcher returned:
   `if (error) return null; return data?.<field> ?? null` *)
UserReturn(res, field) ==
    IF Truthy(res.error) THEN RepositoryReturned(JNull)
    ELSE IF Nullish(res.data) \/ Nullish(Get(res.data, field))
    THEN RepositoryReturned(JNull)
    ELSE RepositoryReturned(Get(res.data, field))

(* favorites.add / remove after the fetcher returned *)
FavoriteReturn(res) ==
    IF Truthy(res.error) THEN RepositoryReturned(JNull)
    ELSE RepositoryReturned(res.data)

RepositoryReturn(op, res) ==
    CASE op \in ListOps -> ArticleListReturn(res)
      [] op \in PageOps -> PageReturn(res)
      [] op = "articles.getBySlug" -> ArticleReturn(res)
      [] op = "users.getCurrentUser" -> UserReturn(res, "user")
      [] op \in {"users.getProfile", "users.follow", "users.unfollow"} ->
           UserReturn(res, "profile")
      [] op \in {"favorites.add", "favorites.remove"} -> FavoriteReturn(res)

-----------------------------------------------------------------------------
(* Transport layer: the calls *)

TransportIdle ==
    /\ pc = "idle"
    /\ call = None
    /\ request = None
    /\ response = None
    /\ result = None
    /\ transformed = FALSE
    /\ fetches = 0
    /\ callsMade = 0
    /\ rcall = None
    /\ rout = None

(* the client was built from a full configuration: createGraphQLClient(config)
   and createRestClient(config) *)
DirectClient ==
    /\ config \in TransportConfigs
    /\ origin = [fn |-> "createGraphQLClient", token |-> None, overrides |-> NoOverrides]

(* the client was built by createAuthenticatedClient(token, overrides) *)
AuthenticatedClient ==
    \E token \in TokenArguments, overrides \in Overrides :
        /\ config = createAuthenticatedClient(token, overrides)
        /\ origin = [fn |-> "createAuthenticatedClient", token |-> Some(token),
                     overrides |-> overrides]

Init ==
    /\ DirectClient \/ AuthenticatedClient
    /\ TransportIdle
    /\ AuthIdle
    /\ NativeAbsent
    /\ UtilIdle

(* graphqlFetch up to `await fetch(...)`: lines 33-64 *)
GraphqlFetch ==
    /\ pc = "idle"
    /\ callsMade < MaxCalls
    /\ \E variables \in VariablesInputs, options \in GraphqlOptions :
         /\ call' = Some([kind |-> "graphql", target |-> "query Q { test }",
                          variables |-> variables, options |-> options])
         /\ IF Serializable(variables)
            THEN /\ request' = Some(GraphqlRequest("query Q { test }", variables, options, config))
                 /\ result' = None
                 /\ fetches' = fetches + 1
                 /\ pc' = "fetching"
            ELSE /\ request' = None
                 /\ result' = Some([kind |-> "rejected", value |-> StringifyError])
                 /\ fetches' = fetches
                 /\ pc' = "done"
    /\ callsMade' = callsMade + 1
    /\ response' = None
    /\ transformed' = FALSE
    /\ UNCHANGED <<config, origin, rcall, rout, avars, nvars, uvars>>

(* restFetch up to `await fetch(...)`: lines 120-142 *)
RestFetch ==
    /\ pc = "idle"
    /\ callsMade < MaxCalls
    /\ \E options \in RestOptions :
         /\ call' = Some([kind |-> "rest", target |-> "/api/user",
                          variables |-> "none", options |-> options])
         /\ IF IsSome(options.body) => Serializable(Val(options.body))
            THEN /\ request' = Some(RestRequest("/api/user", options, config))
                 /\ result' = None
                 /\ fetches' = fetches + 1
                 /\ pc' = "fetching"
            ELSE /\ request' = None
                 /\ result' = Some([kind |-> "rejected", value |-> StringifyError])
                 /\ fetches' = fetches
                 /\ pc' = "done"
    /\ callsMade' = callsMade + 1
    /\ response' = None
    /\ transformed' = FALSE
    /\ UNCHANGED <<config, origin, rcall, rout, avars, nvars, uvars>>

(* a handler calling fetch again after a rejected fetch or a non-2xx response *)
FetchesAfterRetryingFailure(out, n) ==
    IF out.k = "rejected" \/ ~Ok(out.res.status) THEN n + 1 ELSE n

(* the calls of fetch once the pending one settled: neither the error branches
   nor the catch block call fetch again *)
FetchesAfter(out, n) == n

(* the rest of the handler once the pending fetch settled with outcome `out` *)
Complete(out) ==
    LET kind == Val(call).kind
        r == IF out.k = "rejected"
             THEN IF kind = "graphql" THEN GraphqlCatch(out.error, FALSE)
                                      ELSE RestCatch(out.error, FALSE)
             ELSE IF kind = "graphql" THEN GraphqlOnResponse(out.res, config)
                                      ELSE RestOnResponse(out.res, config)
    IN /\ response' = Some(out)
       /\ result' = Some([kind |-> r.kind, value |-> r.value])
       /\ transformed' = r.transformed
       /\ fetches' = FetchesAfter(out, fetches)
       /\ pc' = "done"
       /\ UNCHANGED <<config, origin, call, request, callsMade, rcall, rout, avars, nvars,
                       uvars>>

(* fetch rejects (network failure): the catch block runs *)
FetchRejects ==
    /\ pc = "fetching"
    /\ \E e \in NetworkErrors : Complete([k |-> "rejected", error |-> e])

(* fetch resolves with a response: lines 66-85 / 144-163 *)
FetchResolves ==
    /\ pc = "fetching"
    /\ \E res \in Responses : Complete([k |-> "resolved", res |-> res])

(* a repository operation up to the `await fetcher(...)` it starts with; the
   fetcher runs as in GraphqlFetch / RestFetch *)
RepositoryCall ==
    /\ pc = "idle"
    /\ callsMade < MaxCalls
    /\ \E operation \in RepositoryCalls :
         LET fetcherCall == RepositoryFetch(operation.op, operation.arg)
             serialises ==
                 IF fetcherCall.kind = "graphql" THEN Serializable(fetcherCall.variables)
                 ELSE IsSome(fetcherCall.options.body) =>
                          Serializable(Val(fetcherCall.options.body))
         IN /\ rcall' = Some(operation)
            /\ call' = Some(fetcherCall)
            /\ IF serialises
               THEN /\ request' = Some(IF fetcherCall.kind = "graphql"
                                       THEN GraphqlRequest(fetcherCall.target,
                                                fetcherCall.variables,
                                                fetcherCall.options, config)
                                       ELSE RestRequest(fetcherCall.target,
                                                fetcherCall.options, config))
                    /\ result' = None
                    /\ fetches' = fetches + 1
                    /\ pc' = "fetching"
               ELSE /\ request' = None
                    /\ result' = Some([kind |-> "rejected", value |-> StringifyError])
                    /\ fetches' = fetches
                    /\ pc' = "done"
    /\ rout' = None
    /\ callsMade' = callsMade + 1
    /\ response' = None
    /\ transformed' = FALSE
    /\ UNCHANGED <<config, origin, avars, nvars, uvars>>

(* the rest of the repository operation once the fetcher settled: a rejected
   fetcher promise rejects the operation, a result is post-processed *)
RepositoryReturns ==
    /\ pc = "done"
    /\ IsSome(rcall)
    /\ rout = None
    /\ rout' = Some(IF Val(result).kind = "rejected"
                    THEN [kind |-> "rejected", value |-> Val(result).value]
                    ELSE RepositoryReturn(Val(rcall).op, Val(result).value))
    /\ UNCHANGED <<config, origin, pc, call, request, response, result, transformed,
                   fetches, callsMade, rcall, avars, nvars, uvars>>

(* the caller consumes the settled promise; the fetchers keep no state *)
Consume ==
    /\ pc = "done"
    /\ IsSome(rcall) => IsSome(rout)
    /\ pc' = "idle"
    /\ rcall' = None
    /\ rout' = None
    /\ call' = None
    /\ request' = None
    /\ response' = None
    /\ result' = None
    /\ transformed' = FALSE
    /\ fetches' = 0
    /\ UNCHANGED <<config, origin, callsMade, avars, nvars, uvars>>

Next ==
    \/ GraphqlFetch
    \/ RestFetch
    \/ FetchRejects
    \/ FetchResolves
    \/ RepositoryCall
    \/ RepositoryReturns
    \/ Consume

Spec == Init /\ [][Next]_vars

-----------------------------------------------------------------------------
(* Vocabulary of the transport properties *)

IsCall(kind) == IsSome(call) /\ Val(call).kind = kind
Issued(kind) == IsCall(kind) /\ IsSome(request)
ReturnedResult == IsSome(result) /\ Val(result).kind = "returned"
Resolved == IsSome(response) /\ Val(response).k = "resolved"

(* a token is set on the configuration *)
TokenSet == config.token \notin {None, Some("")}

(* substring test *)
Contains(s, frag) ==
    \E i \in 1..(Len(s) - Len(frag) + 1) : SubSeq(s, i, i + Len(frag) - 1) = frag

DataNonNull == Val(result).value.data.t \notin {"null", "undefined"}

(* an error entry that says something *)
NonEmptyError(e) ==
    /\ e.t = "obj"
    /\ "message" \in DOMAIN e.o
    /\ e.o["message"].t = "str"
    /\ e.o["message"].v # ""

(* the error channel of the current result: errors (GraphQL) / error (REST) *)
ErrorChannel ==
    IF IsCall("graphql") THEN Val(result).value.errors ELSE Val(result).value.error

ChannelAbsent == ErrorChannel = JUndef

ChannelPopulated ==
    IF IsCall("graphql")
    THEN /\ ErrorChannel.t = "arr"
         /\ \E i \in 1..Len(ErrorChannel.a) : NonEmptyError(ErrorChannel.a[i])
    ELSE ErrorChannel.t = "str" /\ ErrorChannel.v # ""

-----------------------------------------------------------------------------
(* C1: the request of graphqlFetch carries cache 'no-store' if and only if a
   bearer token is set, or noCache is requested, or the effective duration
   (cacheSeconds if given, else the configuration's default) is zero *)
C1_NoStoreIff ==
    Issued("graphql") =>
        LET o == Val(call).options
            noCacheRequested == o.noCache = Some(TRUE)
            zeroDuration ==
                IF IsSome(o.cacheSeconds) THEN o.cacheSeconds = Some(0)
                ELSE config.defaultCacheSeconds = Some(0)
        IN (Val(request).cache = Some("no-store"))
             <=> (TokenSet \/ noCacheRequested \/ zeroDuration)

(* an anonymous call without noCache that is no-store only because the
   duration is zero *)
C1_Witness ==
    /\ Issued("graphql")
    /\ ~TokenSet
    /\ Val(call).options.noCache # Some(TRUE)
    /\ Val(call).options.cacheSeconds = None
    /\ config.defaultCacheSeconds = Some(0)
    /\ Val(request).cache = Some("no-store")

(* C2: graphqlFetch and restFetch never throw or reject: every call completes
   with a result in the null-data/error shape *)
C2_NeverRejects ==
    IsSome(result) => Val(result).kind = "returned"

(* C3 (as stated): every returned result has exactly one channel populated *)
C3_ExactlyOneChannel ==
    ReturnedResult =>
        \/ DataNonNull /\ ChannelAbsent
        \/ ~DataNonNull /\ ChannelPopulated

(* C3 (amended): no returned result has both channels: non-null data comes
   with an absent error channel, a present error channel comes with null
   data; neither channel is populated only for a success-status response or
   for a caught exception whose message is empty *)
C3_AtMostOneChannel ==
    ReturnedResult =>
        /\ DataNonNull => ChannelAbsent
        /\ ~ChannelAbsent => Val(result).value.data = JNull
        /\ (~DataNonNull /\ ~ChannelPopulated) =>
              \/ Resolved /\ Val(response).res.status \in 200..299
              \/ /\ IsSome(response)
                 /\ Val(response).k = "rejected"
                 /\ Val(response).error.message = ""

(* a 200 response carrying both errors and data was answered *)
C3_Witness ==
    /\ ReturnedResult
    /\ IsCall("graphql")
    /\ Resolved
    /\ Val(response).res.status = 200
    /\ Val(response).res.body.k = "json"
    /\ Truthy(Get(Val(response).res.body.v, "errors"))
    /\ Get(Val(response).res.body.v, "data").t = "obj"
    /\ ChannelPopulated

(* C6: a request carries 'Authorization: Bearer <token>' if and only if a
   token is present in the configuration *)
C6_AuthHeaderIff ==
    IsSome(request) =>
        LET h == Val(request).headers
        IN /\ ("Authorization" \in DOMAIN h) <=> TokenSet
           /\ TokenSet => h["Authorization"] = "Bearer " \o Val(config.token)

(* a REST request sent with a token *)
C6_Witness ==
    /\ Issued("rest")
    /\ TokenSet
    /\ Val(request).headers["Authorization"] = "Bearer jwt"

(* C7: every non-success status s answered to graphqlFetch yields data null
   and exactly one error whose message contains 'HTTP s' *)
C7_HttpStatusError ==
    (ReturnedResult /\ IsCall("graphql") /\ Resolved
       /\ ~(Val(response).res.status \in 200..299)) =>
        LET v == Val(result).value
        IN /\ v.data = JNull
           /\ v.errors.t = "arr"
           /\ Len(v.errors.a) = 1
           /\ NonEmptyError(v.errors.a[1])
           /\ Contains(v.errors.a[1].o["message"].v,
                       "HTTP " \o ToString(Val(response).res.status))

(* C8: a success-status response carrying a GraphQL errors array yields data
   null and that array, unchanged, with or without data in the response *)
C8_GraphqlErrorsVerbatim ==
    (ReturnedResult /\ IsCall("graphql") /\ Resolved
       /\ Val(response).res.status \in 200..299
       /\ Val(response).res.body.k = "json"
       /\ Get(Val(response).res.body.v, "errors").t = "arr") =>
        /\ Val(result).value.data = JNull
        /\ Val(result).value.errors = Get(Val(response).res.body.v, "errors")

(* two errors, in the provider's order, next to data *)
C8_Witness ==
    /\ ReturnedResult
    /\ IsCall("graphql")
    /\ Resolved
    /\ Val(response).res.status = 200
    /\ Get(Val(response).res.body.v, "data").t = "obj"
    /\ Val(result).value.errors = JArr(<<ErrY, ErrX>>)

(* the payload a successful call transforms *)
Payload ==
    IF IsCall("graphql") THEN Get(Val(response).res.body.v, "data")
    ELSE Val(response).res.body.v

(* C9: non-null data is the Deep Transform Pass of the response payload with
   the configuration's CDN base; no error result went through the transform *)
C9_DataIsTransformed ==
    ReturnedResult =>
        /\ DataNonNull =>
              /\ Resolved
              /\ Val(response).res.body.k = "json"
              /\ transformed
              /\ Val(result).value.data = transformImageUrlsDeep(Payload, config.cdnUrl)
        /\ ~ChannelAbsent => ~transformed

(* a payload with a bare filename came back rewritten *)
C9_Witness ==
    /\ ReturnedResult
    /\ IsCall("graphql")
    /\ DataNonNull
    /\ Val(result).value.data # Payload
    /\ Val(result).value.data.o["article"].o["mainImage"]
         = JStr("https://cdn.chanomhub.com/article1.jpg")

(* C10: every request of restFetch carries cache 'no-store' *)
C10_RestNoStore ==
    Issued("rest") => Val(request).cache = Some("no-store")

(* an anonymous GET without body under a non-zero default duration *)
C10_Witness ==
    /\ Issued("rest")
    /\ ~TokenSet
    /\ config.defaultCacheSeconds = Some(300)
    /\ Val(request).method = "GET"
    /\ Val(request).body = None
    /\ Val(request).cache = Some("no-store")

(* C13: a client built by createAuthenticatedClient(token, overrides) has the
   token argument as its token and a default cache duration of 0 whatever the
   overrides hold; when the token is not empty every GraphQL and REST request
   of the client carries cache 'no-store', whatever cacheSeconds and noCache
   the call passes *)
C13_AuthenticatedClient ==
    origin.fn = "createAuthenticatedClient" =>
        /\ config.token = origin.token
        /\ config.defaultCacheSeconds = Some(0)
        /\ (Val(origin.token) # "" /\ IsSome(request)) =>
               Val(request).cache = Some("no-store")

(* overrides tried to replace both the token and the default duration, and a
   GraphQL call asking for 60 seconds of caching was still sent no-store *)
C13_Witness ==
    /\ origin.fn = "createAuthenticatedClient"
    /\ origin.token = Some("jwt")
    /\ origin.overrides = [token |-> Some("other-jwt"), defaultCacheSeconds |-> Some(300)]
    /\ Issued("graphql")
    /\ Val(call).options.cacheSeconds = Some(60)
    /\ Val(call).options.noCache = Some(FALSE)
    /\ config.token = Some("jwt")
    /\ Val(request).cache = Some("no-store")

(* C11: a 204 response to restFetch yields data null with no error, whatever
   its body is: the body is neither parsed nor transformed *)
C11_NoContent ==
    (ReturnedResult /\ IsCall("rest") /\ Resolved /\ Val(response).res.status = 204) =>
        /\ Val(result).value = [data |-> JNull, error |-> JUndef]
        /\ ~transformed

(* a 204 whose body would not parse was answered without error *)
C11_Witness ==
    /\ ReturnedResult
    /\ IsCall("rest")
    /\ Resolved
    /\ Val(response).res.status = 204
    /\ Val(response).res.body.k = "invalid"
    /\ Val(result).value = [data |-> JNull, error |-> JUndef]

(* the cache duration a request advertises to the fetch layer: a
   next.revalidate extension or a Cache-Control max-age header *)
AdvertisedDuration(req) ==
    IF "next" \in DOMAIN req THEN Some(req.next.revalidate)
    ELSE IF "Cache-Control" \in DOMAIN req.headers THEN Some(req.headers["Cache-Control"])
    ELSE None

(* C12: when caching is applicable (no token, noCache not requested, non-zero
   effective duration) the request of graphqlFetch advertises a positive cache
   duration equal to the effective duration *)
C12_DurationAdvertised ==
    (Issued("graphql")
       /\ ~TokenSet
       /\ Val(call).options.noCache # Some(TRUE)
       /\ cacheSeconds(Val(call).options, config) # 0) =>
        AdvertisedDuration(Val(request)) = Some(cacheSeconds(Val(call).options, config))

(* the GraphQL request is a POST to <apiUrl>/api/graphql *)
GraphqlPostsToApi ==
    Issued("graphql") =>
        /\ Val(request).url = config.apiUrl \o "/api/graphql"
        /\ Val(request).method = "POST"

(* C24 (as stated): every call to graphqlFetch or restFetch issues exactly
   one HTTP request whatever its outcome, a GraphQL request being a POST to
   <apiUrl>/api/graphql *)
C24_ExactlyOneRequest ==
    /\ IsSome(call) => fetches = 1
    /\ GraphqlPostsToApi

(* C24 (amended): every call issues at most one HTTP request, whatever its
   outcome: exactly one when the request body serialises, and none when
   JSON.stringify fails, the call then being rejected before fetch; a failed
   request is never issued again; a GraphQL request is a POST to
   <apiUrl>/api/graphql *)
C24_NoRetry ==
    /\ IsSome(call) =>
          LET serialises ==
                  IF Val(call).kind = "graphql"
                  THEN Val(call).variables \notin {"bigint", "circular"}
                  ELSE Val(call).options.body \notin {Some("bigint"), Some("circular")}
          IN /\ fetches = IF serialises THEN 1 ELSE 0
             /\ IsSome(request) <=> serialises
             /\ ~serialises => pc = "done" /\ IsSome(result) /\ Val(result).kind = "rejected"
    /\ GraphqlPostsToApi

(* a GraphQL call answered with a 500 and a REST call whose fetch was
   rejected each completed after a single request *)
C24_Witness ==
    /\ pc = "done"
    /\ fetches = 1
    /\ callsMade = 2
    /\ IsCall("rest")
    /\ IsSome(response)
    /\ Val(response).k = "rejected"
    /\ ReturnedResult

(* a repository operation ran to its end *)
RepositoryDone == IsSome(rcall) /\ IsSome(rout)

(* the transport failed: network exception, non-2xx status, GraphQL errors *)
TransportFailed ==
    \/ Val(response).k = "rejected"
    \/ /\ Val(response).k = "resolved"
       /\ \/ ~Ok(Val(response).res.status)
          \/ /\ IsCall("graphql")
             /\ Val(response).res.body.k = "json"
             /\ Val(response).res.body.v.t = "obj"
             /\ Truthy(Get(Val(response).res.body.v, "errors"))

(* the key of the fetcher's data an operation returns *)
EntityKey(op) ==
    CASE op \in ListOps \cup PageOps -> "articles"
      [] op = "articles.getBySlug" -> "article"
      [] op = "users.getCurrentUser" -> "user"
      [] op \in {"users.getProfile", "users.follow", "users.unfollow"} -> "profile"
      [] OTHER -> ""

(* the fetcher's data does not hold the entity *)
EntityAbsent(op, data) ==
    \/ Nullish(data)
    \/ EntityKey(op) # "" /\ Nullish(Get(data, EntityKey(op)))

(* C29: a repository operation never throws on a transport failure or a
   missing entity: when the fetcher reports an error (non-2xx status, GraphQL
   errors, network exception) or the entity is absent, a single-entity
   operation returns null and a list operation an empty list (a paginated one
   a page with an empty list and total 0) *)
C29_NullOrEmpty ==
    RepositoryDone =>
        LET op == Val(rcall).op
            out == Val(rout)
            failed == \/ TransportFailed
                      \/ Truthy(ErrorChannel)
                      \/ EntityAbsent(op, Val(result).value.data)
        IN /\ out.kind = "returned"
           /\ ReturnedResult
           /\ failed =>
                 /\ op \in EntityOps => out.value = JNull
                 /\ op \in ListOps => out.value = JArr(<<>>)
                 /\ op \in PageOps =>
                       /\ Get(out.value, "items") = JArr(<<>>)
                       /\ Get(out.value, "total") = JNum(0)

(* a profile lookup answered 404, as the second call of the client *)
C29_Witness ==
    /\ RepositoryDone
    /\ callsMade = 2
    /\ Val(rcall) = [op |-> "users.getProfile", arg |-> Some("a/b c")]
    /\ Val(request).url = "https://api.chanomhub.online/api/profiles/a%2Fb%20c"
    /\ Val(response).k = "resolved"
    /\ Val(response).res.status = 404
    /\ Val(result).value.error = JStr("HTTP 404: Not Found")
    /\ Val(rout) = RepositoryReturned(JNull)

-----------------------------------------------------------------------------
(* Auth repository (repositories/authRepository.ts) *)

AuthConfigs ==
    [apiUrl : {API_URL}, cdnUrl : {CDN_URL}, token : {None},
     defaultCacheSeconds : {Some(300)},
     supabaseUrl : {None, Some(""), Some("https://project.supabase.co")},
     supabaseAnonKey : {None, Some("anon-key")}]

(* the operations that start with `await getSupabaseClient()` *)
OpKinds == {"signInWithProvider", "signInWithGoogle", "getOAuthUrl", "handleCallback",
            "signOut", "getSupabaseSession"}

(* signInWithGoogle(options) is signInWithProvider('google', options) *)
SignInKinds == {"signInWithProvider", "signInWithGoogle"}

(* the refresh tokens a caller passes to refreshToken *)
RefreshTokens == {"", "refresh-jwt"}

(* the operations that fail with a configuration error without a client *)
NeedsClient == SignInKinds \cup {"getOAuthUrl", "handleCallback"}

SessionTokens == {"supabase-access-token"}

(* isOAuthEnabled() requiring one coordinate only *)
isOAuthEnabledWithEitherCoordinate(cfg) ==
    \/ IsSome(cfg.supabaseUrl) /\ Val(cfg.supabaseUrl) # ""
    \/ IsSome(cfg.supabaseAnonKey) /\ Val(cfg.supabaseAnonKey) # ""

(* isOAuthEnabled(): Boolean(config.supabaseUrl && config.supabaseAnonKey) *)
isOAuthEnabled(cfg) ==
    /\ IsSome(cfg.supabaseUrl) /\ Val(cfg.supabaseUrl) # ""
    /\ IsSome(cfg.supabaseAnonKey) /\ Val(cfg.supabaseAnonKey) # ""

(* tryGetSupabaseClient giving up only when both coordinates are missing *)
SupabaseUnconfiguredWhenBothMissing(cfg) ==
    /\ ~(IsSome(cfg.supabaseUrl) /\ Val(cfg.supabaseUrl) # "")
    /\ ~(IsSome(cfg.supabaseAnonKey) /\ Val(cfg.supabaseAnonKey) # "")

(* `!config.supabaseUrl || !config.supabaseAnonKey` *)
SupabaseUnconfigured(cfg) ==
    \/ ~(IsSome(cfg.supabaseUrl) /\ Val(cfg.supabaseUrl) # "")
    \/ ~(IsSome(cfg.supabaseAnonKey) /\ Val(cfg.supabaseAnonKey) # "")

(* the promise tryGetSupabaseClient returns when called: already resolved to
   null without configuration, else pending on the dynamic import *)
tryGetSupabaseClient(cfg) ==
    IF SupabaseUnconfigured(cfg)
    THEN [st |-> "resolved", client |-> 0]
    ELSE [st |-> "pending", client |-> 0]

(* getSupabaseClient constructing again until a client has been resolved *)
ClientNotResolvedYet(promise) == promise.st # "resolved"

(* `if (!supabaseClientPromise)` *)
ClientNotMemoized(promise) == promise = NoPromise

(* getSupabaseClient: the promise held after the call *)
getSupabaseClient(promise, cfg) ==
    IF ClientNotMemoized(promise) THEN tryGetSupabaseClient(cfg) ELSE promise

AuthInit ==
    /\ config \in AuthConfigs
    /\ origin = [fn |-> "createAuthRepository", token |-> None, overrides |-> NoOverrides]
    /\ TransportIdle
    /\ AuthIdle
    /\ NativeAbsent
    /\ UtilIdle

(* an operation is called: it runs up to `await getSupabaseClient()` *)
Invoke(o) ==
    /\ ops[o].pc = "idle"
    /\ \A p \in 1..(o - 1) : ops[p].pc # "idle"
    /\ \E kind \in OpKinds, skip \in BOOLEAN :
         /\ kind \notin SignInKinds => ~skip
         /\ ops' = [ops EXCEPT ![o] = [IdleOp EXCEPT !.kind = kind,
                                                     !.pc = "awaitClient",
                                                     !.skipBrowserRedirect = skip]]
    /\ supabaseClientPromise' = getSupabaseClient(supabaseClientPromise, config)
    /\ tryCount' = IF ClientNotMemoized(supabaseClientPromise) THEN tryCount + 1 ELSE tryCount
    /\ UNCHANGED <<tvars, nvars, uvars, idpSession, redirects, backendCalls>>

(* the request refreshToken hands to the fetcher, with the token under another key *)
RefreshTokenRequestAsAccessToken(token) ==
    [endpoint |-> "/api/users/refresh-token", method |-> "POST",
     body |-> [accessToken |-> token]]

(* the request refreshToken hands to the fetcher: lines 244-247 *)
RefreshTokenRequest(token) ==
    [endpoint |-> "/api/users/refresh-token", method |-> "POST",
     body |-> [refreshToken |-> token]]

(* refreshToken(token) is called: it runs up to `await fetcher(...)` without
   asking for the identity-provider client *)
InvokeRefreshToken(o) ==
    /\ ops[o].pc = "idle"
    /\ \A p \in 1..(o - 1) : ops[p].pc # "idle"
    /\ \E token \in RefreshTokens :
         /\ ops' = [ops EXCEPT ![o] = [IdleOp EXCEPT !.kind = "refreshToken",
                                                     !.pc = "awaitBackend",
                                                     !.arg = Some(token)]]
         /\ backendCalls' = Append(backendCalls,
                                   [op |-> o, request |-> RefreshTokenRequest(token)])
    /\ UNCHANGED <<tvars, nvars, uvars, supabaseClientPromise, tryCount, idpSession, redirects>>

(* isOAuthEnabled() is called: a synchronous read of the configuration *)
InvokeIsOAuthEnabled(o) ==
    /\ ops[o].pc = "idle"
    /\ \A p \in 1..(o - 1) : ops[p].pc # "idle"
    /\ ops' = [ops EXCEPT ![o] = [IdleOp EXCEPT !.kind = "isOAuthEnabled",
                                                !.pc = "done",
                                                !.outcome = IF isOAuthEnabled(config)
                                                            THEN "true" ELSE "false"]]
    /\ UNCHANGED <<tvars, nvars, uvars, supabaseClientPromise, tryCount, idpSession, redirects,
                   backendCalls>>

(* the dynamic import settles: createClient returns a new client, or the
   package is missing and the catch returns null *)
ImportSettles ==
    /\ supabaseClientPromise.st = "pending"
    /\ \E installed \in BOOLEAN :
         supabaseClientPromise' =
             [st |-> "resolved", client |-> IF installed THEN tryCount ELSE 0]
    /\ UNCHANGED <<tvars, nvars, uvars, tryCount, ops, idpSession, redirects, backendCalls>>

(* `const client = await getSupabaseClient()` resumes, up to the next await *)
ClientObtained(o) ==
    /\ ops[o].pc = "awaitClient"
    /\ supabaseClientPromise.st = "resolved"
    /\ LET client == supabaseClientPromise.client
           kind == ops[o].kind
       IN ops' = [ops EXCEPT ![o] =
              IF client = 0
              THEN [@ EXCEPT !.pc = "done",
                             !.outcome = IF kind \in NeedsClient THEN "threw-config"
                                         ELSE IF kind = "signOut" THEN "void"
                                         ELSE "null"]
              ELSE [@ EXCEPT !.client = client,
                             !.pc = IF kind \in SignInKinds \cup {"getOAuthUrl"}
                                    THEN "awaitProvider"
                                    ELSE IF kind = "signOut" THEN "awaitSignOut"
                                    ELSE "awaitSession"]]
    /\ UNCHANGED <<tvars, nvars, uvars, supabaseClientPromise, tryCount, idpSession, redirects,
                   backendCalls>>

(* client.auth.signInWithOAuth settles in signInWithProvider / getOAuthUrl *)
ProviderAnswers(o) ==
    /\ ops[o].pc = "awaitProvider"
    /\ \E answer \in {"error", "url", "nourl"} :
         IF answer = "error"
         THEN /\ ops' = [ops EXCEPT ![o].pc = "done", ![o].idp = answer,
                                    ![o].outcome = "threw-provider"]
              /\ UNCHANGED redirects
         ELSE /\ redirects' = redirects \cup {o}
              /\ ops' = [ops EXCEPT
                    ![o].pc = "done",
                    ![o].idp = answer,
                    ![o].outcome =
                        IF ops[o].kind \in SignInKinds
                        THEN IF ops[o].skipBrowserRedirect /\ answer = "url"
                             THEN "url" ELSE "void"
                        ELSE IF answer = "url" THEN "url" ELSE "null"]
    /\ UNCHANGED <<tvars, nvars, uvars, supabaseClientPromise, tryCount, idpSession, backendCalls>>

(* handleCallback without the `!data.session` test, reading the token with
   optional chaining *)
handleCallbackWithoutSessionCheck(error, session) ==
    IF error THEN [next |-> "null", accessToken |-> ""]
    ELSE [next |-> "exchange",
          accessToken |-> IF IsSome(session) THEN Val(session) ELSE "undefined"]

(* handleCallback after `await client.auth.getSession()`: lines 200-219 *)
handleCallbackAfterSession(error, session) ==
    IF error THEN [next |-> "null", accessToken |-> ""]
    ELSE IF session = None THEN [next |-> "null", accessToken |-> ""]
    ELSE [next |-> "exchange", accessToken |-> Val(session)]

(* the request handleCallback hands to the fetcher: lines 211-219 *)
LoginSupabaseRequest(accessToken) ==
    [endpoint |-> "/api/users/login-supabase", method |-> "POST",
     body |-> [accessToken |-> accessToken]]

(* client.auth.getSession settles in handleCallback / getSupabaseSession *)
SessionAnswers(o) ==
    /\ ops[o].pc = "awaitSession"
    /\ \E answer \in {"raise", "error", "value"} :
         LET error == answer = "error"
             session == IF answer = "value" THEN idpSession ELSE None
             step == handleCallbackAfterSession(error, session)
         IN IF answer = "raise"
            THEN /\ ops' = [ops EXCEPT ![o].pc = "done", ![o].idp = answer,
                                       ![o].outcome = "threw-provider"]
                 /\ UNCHANGED backendCalls
            ELSE IF ops[o].kind = "getSupabaseSession"
            THEN /\ ops' = [ops EXCEPT
                       ![o].pc = "done",
                       ![o].idp = answer,
                       ![o].session = session,
                       ![o].outcome = IF error \/ session = None THEN "null" ELSE "session"]
                 /\ UNCHANGED backendCalls
            ELSE IF step.next = "null"
            THEN /\ ops' = [ops EXCEPT ![o].pc = "done", ![o].idp = answer,
                                       ![o].session = session, ![o].outcome = "null"]
                 /\ UNCHANGED backendCalls
            ELSE /\ ops' = [ops EXCEPT ![o].pc = "awaitBackend", ![o].idp = answer,
                                       ![o].session = session]
                 /\ backendCalls' = Append(backendCalls,
                       [op |-> o, request |-> LoginSupabaseRequest(step.accessToken)])
    /\ UNCHANGED <<tvars, nvars, uvars, supabaseClientPromise, tryCount, idpSession, redirects>>

(* the answers of the backend fetcher: an error, a response body, or no body *)
FetcherAnswers == {"error", "data", "empty"}

(* handleCallback rethrowing the error of the exchange *)
handleCallbackRaisingLoginError(answer) ==
    IF answer = "error" THEN "threw-backend"
    ELSE IF answer = "data" THEN "login" ELSE "null"

(* handleCallback after `await fetcher(...)`: lines 221-226 *)
handleCallbackAfterExchange(answer) ==
    IF answer = "error" THEN "null"
    ELSE IF answer = "data" THEN "login" ELSE "null"

(* refreshToken after `await fetcher(...)`: lines 249-254 *)
refreshTokenAfterFetch(answer) ==
    IF answer = "error" THEN "null"
    ELSE IF answer = "data" THEN "refresh" ELSE "null"

(* the fetcher answers the request of handleCallback or refreshToken *)
BackendAnswers(o) ==
    /\ ops[o].pc = "awaitBackend"
    /\ \E answer \in FetcherAnswers :
         ops' = [ops EXCEPT ![o].pc = "done",
                            ![o].backend = answer,
                            ![o].outcome =
                                IF ops[o].kind = "refreshToken"
                                THEN refreshTokenAfterFetch(answer)
                                ELSE handleCallbackAfterExchange(answer)]
    /\ UNCHANGED <<tvars, nvars, uvars, supabaseClientPromise, tryCount, idpSession, redirects,
                   backendCalls>>

(* signOut rethrowing the error the provider reports *)
signOutRaisingProviderError(answer) ==
    IF answer \in {"raise", "error"} THEN "threw-provider" ELSE "void"

(* signOut after `await client.auth.signOut()`: a reported error is logged *)
signOutAfterProvider(answer) ==
    IF answer = "raise" THEN "threw-provider" ELSE "void"

(* client.auth.signOut settles in signOut *)
SignOutAnswers(o) ==
    /\ ops[o].pc = "awaitSignOut"
    /\ \E answer \in {"raise", "error", "ok"} :
         /\ ops' = [ops EXCEPT ![o].pc = "done",
                               ![o].idp = answer,
                               ![o].outcome = signOutAfterProvider(answer)]
         /\ idpSession' = IF answer = "ok" THEN None ELSE idpSession
    /\ UNCHANGED <<tvars, nvars, uvars, supabaseClientPromise, tryCount, redirects, backendCalls>>

(* the identity-provider SDK holds a session: restored from its own storage
   or read from the callback URL; the repository keeps no record of it *)
EstablishSession ==
    /\ idpSession = None
    /\ \E token \in SessionTokens : idpSession' = Some(token)
    /\ UNCHANGED <<tvars, nvars, uvars, supabaseClientPromise, tryCount, ops, redirects,
                   backendCalls>>

AuthNext ==
    \/ \E o \in 1..MaxOps : Invoke(o)
    \/ \E o \in 1..MaxOps : InvokeRefreshToken(o)
    \/ \E o \in 1..MaxOps : InvokeIsOAuthEnabled(o)
    \/ ImportSettles
    \/ \E o \in 1..MaxOps : ClientObtained(o)
    \/ \E o \in 1..MaxOps : ProviderAnswers(o)
    \/ \E o \in 1..MaxOps : SessionAnswers(o)
    \/ \E o \in 1..MaxOps : BackendAnswers(o)
    \/ \E o \in 1..MaxOps : SignOutAnswers(o)
    \/ EstablishSession

AuthSpec == AuthInit /\ [][AuthNext]_vars

-----------------------------------------------------------------------------
(* Vocabulary of the auth properties *)

(* the operation has resumed from `await getSupabaseClient()` *)
Observed(o) == ops[o].kind \in OpKinds /\ ops[o].pc \notin {"idle", "awaitClient"}

(* the operation sent a request to the backend *)
ExchangeIssued(o) ==
    \E i \in 1..Len(backendCalls) :
        /\ backendCalls[i].op = o
        /\ backendCalls[i].request.endpoint = "/api/users/login-supabase"

(* the state of a sign-in attempt as far as one call carries it *)
Phase(op) ==
    CASE op.kind = "handleCallback" ->
           IF op.pc = "awaitBackend" THEN "CallbackReceived"
           ELSE IF op.pc = "done"
                THEN IF op.outcome = "login" THEN "BackendTokenExchanged" ELSE "Failed"
                ELSE "Idle"
      [] op.kind \in SignInKinds ->
           IF op.pc = "done"
           THEN IF op.outcome \in {"url", "void"} THEN "ProviderRedirectIssued" ELSE "Failed"
           ELSE "Idle"
      [] OTHER -> "Idle"

AllowedMoves ==
    { <<"Idle", "ProviderRedirectIssued">>,
      <<"Idle", "CallbackReceived">>,
      <<"CallbackReceived", "BackendTokenExchanged">>,
      <<"Idle", "Failed">>,
      <<"CallbackReceived", "Failed">> }

(* C4: tryGetSupabaseClient runs at most once per repository and every
   operation, in any interleaving, observes the same client or the same
   'unavailable' outcome *)
C4_ClientConstructedOnce ==
    /\ tryCount <= 1
    /\ \A o \in 1..MaxOps :
         Observed(o) =>
            /\ supabaseClientPromise.st = "resolved"
            /\ ops[o].client = supabaseClientPromise.client
    /\ \A o1, o2 \in 1..MaxOps :
         (Observed(o1) /\ Observed(o2)) => ops[o1].client = ops[o2].client

(* two different operations were started before the memoized value exists,
   and the client was requested once *)
C4_Witness ==
    /\ supabaseClientPromise.st = "pending"
    /\ tryCount = 1
    /\ \E o1, o2 \in 1..MaxOps :
         /\ o1 # o2
         /\ ops[o1].pc = "awaitClient"
         /\ ops[o2].pc = "awaitClient"
         /\ ops[o1].kind = "signInWithProvider"
         /\ ops[o2].kind = "getSupabaseSession"

(* C5 (as stated): handleCallback exchanges with the backend only after
   signInWithProvider issued a provider redirect and a callback session was
   received *)
C5_ExchangeAfterRedirect ==
    \A o \in 1..MaxOps :
        (ops[o].kind = "handleCallback" /\ ExchangeIssued(o)) =>
            /\ \E r \in redirects : ops[r].kind \in SignInKinds
            /\ ops[o].session # None

(* C5 (amended): signInWithProvider moves only Idle -> ProviderRedirectIssued
   or Failed; handleCallback moves only Idle -> CallbackReceived ->
   BackendTokenExchanged, or to Failed; the backend exchange is sent only by a
   handleCallback call that received a session, with that session's token;
   ProviderRedirectIssued, BackendTokenExchanged and Failed are terminal *)
C5_AttemptOrder ==
    [][\A o \in 1..MaxOps :
          /\ Phase(ops[o]) # Phase(ops'[o]) =>
                <<Phase(ops[o]), Phase(ops'[o])>> \in AllowedMoves
          /\ \A i \in 1..Len(backendCalls') :
                (/\ backendCalls'[i].op = o
                 /\ backendCalls'[i].request.endpoint = "/api/users/login-supabase") =>
                   /\ ops'[o].kind = "handleCallback"
                   /\ Phase(ops'[o]) \in {"CallbackReceived", "BackendTokenExchanged",
                                          "Failed"}
                   /\ ops'[o].session # None
                   /\ backendCalls'[i].request.body.accessToken = Val(ops'[o].session)]_vars

(* a handleCallback call received a session and completed the exchange *)
C5_Witness ==
    \E o \in 1..MaxOps :
        /\ ops[o].kind = "handleCallback"
        /\ ops[o].session = Some("supabase-access-token")
        /\ ExchangeIssued(o)
        /\ Phase(ops[o]) = "BackendTokenExchanged"

(* the positions in backendCalls of the requests sent by operation o *)
CallsOf(o) == {i \in 1..Len(backendCalls) : backendCalls[i].op = o}

(* C14: handleCallback sends the backend exchange, one POST to
   /api/users/login-supabase carrying the session's access token, if and only
   if the identity provider returned a session; it returns the login response
   when the exchange succeeds, and null when the session is absent, when
   reading the session reports an error, or when the exchange fails *)
C14_CallbackExchange ==
    \A o \in 1..MaxOps :
        ops[o].kind = "handleCallback" =>
            LET sessionReturned == ops[o].idp = "value" /\ ops[o].session # None
            IN /\ CallsOf(o) # {} <=> sessionReturned
               /\ Cardinality(CallsOf(o)) <= 1
               /\ \A i \in CallsOf(o) :
                     backendCalls[i].request =
                        [endpoint |-> "/api/users/login-supabase", method |-> "POST",
                         body |-> [accessToken |-> Val(ops[o].session)]]
               /\ ops[o].backend = "data" =>
                     ops[o].pc = "done" /\ ops[o].outcome = "login"
               /\ (\/ ops[o].idp = "error"
                   \/ ops[o].idp = "value" /\ ops[o].session = None
                   \/ ops[o].backend = "error") =>
                     ops[o].pc = "done" /\ ops[o].outcome = "null"

(* one handleCallback found no session and returned null without a request;
   a later one found a session, and its exchange failed: null again *)
C14_Witness ==
    \E o1, o2 \in 1..MaxOps :
        /\ ops[o1].kind = "handleCallback"
        /\ ops[o1].idp = "value"
        /\ ops[o1].session = None
        /\ ops[o1].outcome = "null"
        /\ CallsOf(o1) = {}
        /\ ops[o2].kind = "handleCallback"
        /\ ops[o2].session = Some("supabase-access-token")
        /\ Cardinality(CallsOf(o2)) = 1
        /\ ops[o2].backend = "error"
        /\ ops[o2].outcome = "null"

(* C16: refreshToken(token) sends a single POST to /api/users/refresh-token
   with body {refreshToken: token}; it returns the backend's response when the
   call succeeds and null, never a throw, when the call reports an error *)
C16_RefreshToken ==
    \A o \in 1..MaxOps :
        ops[o].kind = "refreshToken" =>
            /\ Cardinality(CallsOf(o)) = 1
            /\ \A i \in CallsOf(o) :
                  backendCalls[i].request =
                     [endpoint |-> "/api/users/refresh-token", method |-> "POST",
                      body |-> [refreshToken |-> Val(ops[o].arg)]]
            /\ ops[o].backend = "data" =>
                  ops[o].pc = "done" /\ ops[o].outcome = "refresh"
            /\ ops[o].backend = "error" =>
                  ops[o].pc = "done" /\ ops[o].outcome = "null"
            /\ ops[o].outcome \in {"none", "refresh", "null"}

(* a refreshToken call whose request failed returned null, and another one
   returned the backend's response; each sent its own token once *)
C16_Witness ==
    \E o1, o2 \in 1..MaxOps :
        /\ ops[o1].kind = "refreshToken"
        /\ ops[o1].arg = Some("refresh-jwt")
        /\ ops[o1].backend = "error"
        /\ ops[o1].outcome = "null"
        /\ ops[o2].kind = "refreshToken"
        /\ ops[o2].arg = Some("")
        /\ ops[o2].backend = "data"
        /\ ops[o2].outcome = "refresh"
        /\ Len(backendCalls) = 2

(* the operation called a method of the identity-provider client *)
IdpCalled(o) ==
    \/ ops[o].pc \in {"awaitProvider", "awaitSession", "awaitSignOut"}
    \/ ops[o].idp # "none"

(* C19: whenever isOAuthEnabled() is false, signInWithProvider and
   signInWithGoogle fail with the configuration error without any call to the
   identity provider or to the backend, and getSupabaseSession returns null *)
C19_DisabledOAuth ==
    ~isOAuthEnabled(config) =>
        /\ supabaseClientPromise.st # "pending"
        /\ redirects = {}
        /\ \A o \in 1..MaxOps :
              /\ ops[o].kind \in SignInKinds \cup {"getSupabaseSession"} =>
                    ~IdpCalled(o) /\ CallsOf(o) = {}
              /\ (ops[o].kind \in SignInKinds /\ Observed(o)) =>
                    ops[o].pc = "done" /\ ops[o].outcome = "threw-config"
              /\ (ops[o].kind = "getSupabaseSession" /\ Observed(o)) =>
                    ops[o].pc = "done" /\ ops[o].outcome = "null"

(* with the key present and only the URL empty, signInWithGoogle failed with
   the configuration error and getSupabaseSession returned null *)
C19_Witness ==
    /\ config.supabaseUrl = Some("")
    /\ config.supabaseAnonKey = Some("anon-key")
    /\ \E o1, o2 \in 1..MaxOps :
          /\ ops[o1].kind = "signInWithGoogle"
          /\ ops[o1].outcome = "threw-config"
          /\ ops[o2].kind = "getSupabaseSession"
          /\ ops[o2].outcome = "null"
          /\ ops[o2].idp = "none"

(* C21: in handleCallback, getSupabaseSession, signOut and refreshToken a
   failure of the identity provider or of the backend, reported as an error
   value or raised by the call, never reaches the caller as a rejected call *)
C21_NoRejection ==
    \A o \in 1..MaxOps :
        ops[o].kind \in {"handleCallback", "getSupabaseSession", "signOut", "refreshToken"} =>
            ops[o].outcome \notin {"threw-provider", "threw-backend"}

(* C22: signOut sends no backend request and issues no redirect, calls the
   identity provider's sign-out at most once, and completes normally both
   without a client and when the provider reports a sign-out error *)
C22_SignOutFrame ==
    [][\A o \in 1..MaxOps :
          (ops'[o].kind = "signOut" /\ ops'[o] # ops[o]) =>
              /\ backendCalls' = backendCalls
              /\ redirects' = redirects
              /\ ops[o].pc # "done"
              /\ ops'[o].pc = "awaitSignOut" => ops[o].pc = "awaitClient"
              /\ (ops'[o].pc = "done" /\ (ops'[o].client = 0 \/ ops'[o].idp \in {"error", "ok"})) =>
                    ops'[o].outcome = "void"]_vars

(* the provider reported a sign-out error: signOut completed normally, the
   session stayed with the provider and nothing was sent to the backend *)
C22_Witness ==
    \E o \in 1..MaxOps :
        /\ ops[o].kind = "signOut"
        /\ ops[o].pc = "done"
        /\ ops[o].idp = "error"
        /\ ops[o].outcome = "void"
        /\ idpSession # None
        /\ backendCalls = <<>>

(* C23: isOAuthEnabled() returns true if and only if the identity-provider
   URL and key are both configured and non-empty; the call performs no I/O
   and does not construct the identity-provider client *)
C23_IsOAuthEnabled ==
    [][\A o \in 1..MaxOps :
          (ops'[o].kind = "isOAuthEnabled" /\ ops'[o] # ops[o]) =>
              /\ ops'[o].pc = "done"
              /\ ops'[o].outcome = "true" <=>
                    /\ config.supabaseUrl \notin {None, Some("")}
                    /\ config.supabaseAnonKey \notin {None, Some("")}
              /\ ops'[o].outcome \in {"true", "false"}
              /\ supabaseClientPromise' = supabaseClientPromise
              /\ tryCount' = tryCount
              /\ backendCalls' = backendCalls
              /\ redirects' = redirects
              /\ idpSession' = idpSession]_vars

(* with the key configured and the URL empty, isOAuthEnabled() answered false
   as the first call on the repository, and no client was requested *)
C23_Witness ==
    /\ config.supabaseUrl = Some("")
    /\ config.supabaseAnonKey = Some("anon-key")
    /\ ops[1].kind = "isOAuthEnabled"
    /\ ops[1].outcome = "false"
    /\ supabaseClientPromise = NoPromise
    /\ tryCount = 0

-----------------------------------------------------------------------------
(* Native auth methods: signInWithProviderNative, signInWithGoogleNative and
   exchangeOAuthToken.  The repository holds two sources of them:
     "native-entry"  repositories/authRepository.native.ts, which imports
                     react-native-app-auth statically
     "merged"        the auth repository of part_007, which imports it
                     dynamically inside signInWithProviderNative *)

NativeBuilds == {"native-entry", "merged"}

OAuthProviders == {"google", "discord", "github", "facebook"}

(* a non-empty string is present: the truthiness of an optional string *)
NonEmpty(opt) == IsSome(opt) /\ Val(opt) # ""

(* `x || ''` on an optional string *)
OrEmpty(opt) == IF NonEmpty(opt) THEN Val(opt) ELSE ""

OAUTH_CONFIGS ==
    [provider \in OAuthProviders |->
        CASE provider = "google" ->
               [issuer |-> "https://accounts.google.com",
                serviceConfiguration |-> None,
                defaultScopes |-> <<"openid", "email", "profile">>]
          [] provider = "discord" ->
               [issuer |-> "",
                serviceConfiguration |->
                    Some([authorizationEndpoint |-> "https://discord.com/api/oauth2/authorize",
                          tokenEndpoint |-> "https://discord.com/api/oauth2/token"]),
                defaultScopes |-> <<"identify", "email">>]
          [] provider = "github" ->
               [issuer |-> "",
                serviceConfiguration |->
                    Some([authorizationEndpoint |-> "https://github.com/login/oauth/authorize",
                          tokenEndpoint |-> "https://github.com/login/oauth/access_token"]),
                defaultScopes |-> <<"read:user", "user:email">>]
          [] provider = "facebook" ->
               [issuer |-> "",
                serviceConfiguration |->
                    Some([authorizationEndpoint |-> "https://www.facebook.com/v18.0/dialog/oauth",
                          tokenEndpoint |-> "https://graph.facebook.com/v18.0/oauth/access_token"]),
                defaultScopes |-> <<"email", "public_profile">>]]

(* getClientIdForProvider: the switch has no case for facebook *)
getClientIdForProvider(provider, nativeConfig) ==
    CASE provider = "google" -> OrEmpty(nativeConfig.googleClientId)
      [] provider = "discord" -> OrEmpty(nativeConfig.discordClientId)
      [] provider = "github" -> OrEmpty(nativeConfig.githubClientId)
      [] OTHER -> ""

MissingClientIdMessage(provider) ==
    "Missing client ID for " \o provider \o ". Please provide " \o provider \o
    "ClientId in nativeConfig."

MissingRedirectUriMessage == "Missing redirectUri in nativeConfig."

NotInstalledMessage ==
    "react-native-app-auth is not installed. Please install it: npm install react-native-app-auth"

(* the two checks of signInWithProviderNative with the redirect URI tested first *)
ValidateRedirectUriFirst(provider, nativeConfig) ==
    IF ~NonEmpty(nativeConfig.redirectUri)
    THEN Some(MissingRedirectUriMessage)
    ELSE IF getClientIdForProvider(provider, nativeConfig) = ""
    THEN Some(MissingClientIdMessage(provider))
    ELSE None

(* the two checks opening signInWithProviderNative: <<>> or <<message thrown>> *)
ValidateNativeConfig(provider, nativeConfig) ==
    IF getClientIdForProvider(provider, nativeConfig) = ""
    THEN Some(MissingClientIdMessage(provider))
    ELSE IF ~NonEmpty(nativeConfig.redirectUri)
    THEN Some(MissingRedirectUriMessage)
    ELSE None

(* the authConfig signInWithProviderNative hands to authorize *)
AuthConfig(provider, nativeConfig, options) ==
    LET providerConfig == OAUTH_CONFIGS[provider]
        clientId == IF provider = "google" /\ NonEmpty(nativeConfig.googleIosClientId)
                    THEN Val(nativeConfig.googleIosClientId)
                    ELSE getClientIdForProvider(provider, nativeConfig)
        scopes == IF IsSome(options.scopes) THEN Val(options.scopes)
                  ELSE providerConfig.defaultScopes
        usePKCE == options.usePKCE # Some(FALSE)
    IN IF providerConfig.issuer # ""
       THEN [clientId |-> clientId, redirectUrl |-> Val(nativeConfig.redirectUri),
             scopes |-> scopes, usePKCE |-> usePKCE, issuer |-> providerConfig.issuer]
       ELSE IF IsSome(providerConfig.serviceConfiguration)
       THEN [clientId |-> clientId, redirectUrl |-> Val(nativeConfig.redirectUri),
             scopes |-> scopes, usePKCE |-> usePKCE,
             serviceConfiguration |-> Val(providerConfig.serviceConfiguration)]
       ELSE [clientId |-> clientId, redirectUrl |-> Val(nativeConfig.redirectUri),
             scopes |-> scopes, usePKCE |-> usePKCE]

(* exchangeOAuthToken preferring the access token *)
tokenToExchangePreferringAccessToken(oauth) ==
    IF NonEmpty(oauth.accessToken) THEN Val(oauth.accessToken)
    ELSE OrEmpty(oauth.idToken)

(* `oauthResult.idToken || oauthResult.accessToken`; "" when neither is usable *)
tokenToExchange(oauth) ==
    IF NonEmpty(oauth.idToken) THEN Val(oauth.idToken)
    ELSE OrEmpty(oauth.accessToken)

(* the request exchangeOAuthToken hands to the fetcher *)
LoginOAuthRequest(oauth) ==
    [endpoint |-> "/api/users/login-oauth", method |-> "POST",
     body |-> [accessToken |-> tokenToExchange(oauth),
               provider |-> IF NonEmpty(oauth.idToken) THEN "google" ELSE "oauth"]]

-----------------------------------------------------------------------------
(* Inputs of the native methods *)

NativeConfigs ==
    [googleClientId : {None, Some(""), Some("google-id")},
     googleIosClientId : {None, Some("google-ios-id")},
     discordClientId : {None, Some("discord-id")},
     githubClientId : {None, Some("github-id")},
     facebookClientId : {None, Some("facebook-id")},
     redirectUri : {None, Some(""), Some("com.app://oauth")}]

NativeOptions ==
    [scopes : {None, Some(<<"email">>)},
     usePKCE : {None, Some(FALSE)}]

OAuthResults ==
    [accessToken : {None, Some(""), Some("oauth-access-token")},
     idToken : {None, Some(""), Some("google-id-token")}]

AuthorizeErrors == {"User cancelled flow"}

-----------------------------------------------------------------------------
(* Native methods: the calls *)

NativeInit ==
    /\ config = DEFAULT_CONFIG
    /\ origin = [fn |-> "createNativeAuthRepository", token |-> None,
                 overrides |-> NoOverrides]
    /\ TransportIdle
    /\ AuthIdle
    /\ nativeBuild \in NativeBuilds
    /\ sdkInstalled \in BOOLEAN
    /\ NativeIdle
    /\ UtilIdle

(* the module holding the native methods is loaded and the repository is
   created: a static import loads react-native-app-auth with it, and fails the
   load when the package cannot be resolved *)
LoadNativeEntry ==
    /\ entry = "unloaded"
    /\ IF nativeBuild = "native-entry"
       THEN /\ entry' = IF sdkInstalled THEN "loaded" ELSE "failed"
            /\ sdkLoaded' = sdkInstalled
       ELSE /\ entry' = "loaded"
            /\ UNCHANGED sdkLoaded
    /\ UNCHANGED <<tvars, avars, uvars, nativeBuild, sdkInstalled, npc, ncall, authorizeCall,
                   oauthResult, nativeFetch, nresult, nativeCallsMade>>

NativeThrew(message) == Some([kind |-> "threw", value |-> message])
NativeReturned(value) == Some([kind |-> "returned", value |-> value])

(* exchangeOAuthToken(oauthResult) up to `await fetcher(...)` *)
RunExchange(oauth) ==
    /\ oauthResult' = Some(oauth)
    /\ IF tokenToExchange(oauth) = ""
       THEN /\ nativeFetch' = None
            /\ nresult' = NativeReturned("null")
            /\ npc' = "done"
       ELSE /\ nativeFetch' = Some(LoginOAuthRequest(oauth))
            /\ nresult' = None
            /\ npc' = "exchanging"

(* signInWithProviderNative / signInWithGoogleNative is called: it runs up to
   its first await *)
SignInNative ==
    /\ entry = "loaded"
    /\ npc = "idle"
    /\ nativeCallsMade < MaxNativeCalls
    /\ \E fn \in {"signInWithProviderNative", "signInWithGoogleNative"},
          provider \in OAuthProviders,
          nativeConfig \in NativeConfigs,
          options \in NativeOptions :
         /\ fn = "signInWithGoogleNative" => provider = "google"
         /\ ncall' = Some([fn |-> fn, provider |-> provider,
                           nativeConfig |-> nativeConfig, options |-> options])
         /\ LET invalid == ValidateNativeConfig(provider, nativeConfig)
            IN IF IsSome(invalid)
               THEN /\ nresult' = NativeThrew(Val(invalid))
                    /\ npc' = "done"
                    /\ authorizeCall' = None
               ELSE IF nativeBuild = "merged"
               THEN /\ nresult' = None
                    /\ npc' = "importing"
                    /\ authorizeCall' = None
               ELSE /\ nresult' = None
                    /\ npc' = "authorizing"
                    /\ authorizeCall' = Some(AuthConfig(provider, nativeConfig, options))
    /\ nativeCallsMade' = nativeCallsMade + 1
    /\ oauthResult' = None
    /\ nativeFetch' = None
    /\ UNCHANGED <<tvars, avars, uvars, nativeBuild, sdkInstalled, sdkLoaded, entry>>

(* `await import('react-native-app-auth')` settles in the merged source *)
NativeImportSettles ==
    /\ npc = "importing"
    /\ IF sdkInstalled
       THEN /\ sdkLoaded' = TRUE
            /\ authorizeCall' = Some(AuthConfig(Val(ncall).provider, Val(ncall).nativeConfig,
                                                Val(ncall).options))
            /\ npc' = "authorizing"
            /\ UNCHANGED nresult
       ELSE /\ nresult' = NativeThrew(NotInstalledMessage)
            /\ npc' = "done"
            /\ UNCHANGED <<sdkLoaded, authorizeCall>>
    /\ UNCHANGED <<tvars, avars, uvars, nativeBuild, sdkInstalled, entry, ncall, oauthResult,
                   nativeFetch, nativeCallsMade>>

(* the catch block swallowing the error and returning null *)
signInNativeCatchReturningNull(e) == NativeReturned("null")

(* `catch (error) { console.error(...); throw error; }` *)
signInNativeCatch(e) == NativeThrew(e)

(* authorize rejects: the catch block logs and rethrows *)
AuthorizeRejects ==
    /\ npc = "authorizing"
    /\ \E e \in AuthorizeErrors :
         /\ nresult' = signInNativeCatch(e)
         /\ npc' = "done"
    /\ UNCHANGED <<tvars, avars, uvars, nativeBuild, sdkInstalled, sdkLoaded, entry, ncall,
                   authorizeCall, oauthResult, nativeFetch, nativeCallsMade>>

(* authorize resolves: `return exchangeOAuthToken(result)` *)
AuthorizeResolves ==
    /\ npc = "authorizing"
    /\ \E oauth \in OAuthResults : RunExchange(oauth)
    /\ UNCHANGED <<tvars, avars, uvars, nativeBuild, sdkInstalled, sdkLoaded, entry, ncall,
                   authorizeCall, nativeCallsMade>>

(* exchangeOAuthToken is called by the application *)
ExchangeOAuthToken ==
    /\ entry = "loaded"
    /\ npc = "idle"
    /\ nativeCallsMade < MaxNativeCalls
    /\ \E oauth \in OAuthResults :
         /\ ncall' = Some([fn |-> "exchangeOAuthToken", oauth |-> oauth])
         /\ RunExchange(oauth)
    /\ nativeCallsMade' = nativeCallsMade + 1
    /\ authorizeCall' = None
    /\ UNCHANGED <<tvars, avars, uvars, nativeBuild, sdkInstalled, sdkLoaded, entry>>

(* exchangeOAuthToken after `await fetcher(...)` *)
exchangeOAuthTokenAfterFetch(answer) ==
    IF answer = "error" THEN "null"
    ELSE IF answer = "data" THEN "login" ELSE "null"

(* the fetcher answers the request of exchangeOAuthToken *)
ExchangeAnswers ==
    /\ npc = "exchanging"
    /\ \E answer \in FetcherAnswers :
         /\ nresult' = NativeReturned(exchangeOAuthTokenAfterFetch(answer))
         /\ npc' = "done"
    /\ UNCHANGED <<tvars, avars, uvars, nativeBuild, sdkInstalled, sdkLoaded, entry, ncall,
                   authorizeCall, oauthResult, nativeFetch, nativeCallsMade>>

(* the caller consumes the settled promise *)
NativeConsume ==
    /\ npc = "done"
    /\ npc' = "idle"
    /\ ncall' = None
    /\ authorizeCall' = None
    /\ oauthResult' = None
    /\ nativeFetch' = None
    /\ nresult' = None
    /\ UNCHANGED <<tvars, avars, uvars, nativeBuild, sdkInstalled, sdkLoaded, entry,
                   nativeCallsMade>>

NativeNext ==
    \/ LoadNativeEntry
    \/ SignInNative
    \/ NativeImportSettles
    \/ AuthorizeRejects
    \/ AuthorizeResolves
    \/ ExchangeOAuthToken
    \/ ExchangeAnswers
    \/ NativeConsume

NativeSpec == NativeInit /\ [][NativeNext]_vars

-----------------------------------------------------------------------------
(* Vocabulary of the native properties *)

(* the current call is a native sign-in *)
IsSignInNative ==
    IsSome(ncall) /\ Val(ncall).fn \in {"signInWithProviderNative", "signInWithGoogleNative"}

NativeThrown == IsSome(nresult) /\ Val(nresult).kind = "threw"

(* the client identifier the caller supplied for the provider *)
SuppliedClientId(provider, nativeConfig) ==
    CASE provider = "google" -> nativeConfig.googleClientId
      [] provider = "discord" -> nativeConfig.discordClientId
      [] provider = "github" -> nativeConfig.githubClientId
      [] provider = "facebook" -> nativeConfig.facebookClientId

(* C15: exchangeOAuthToken sends the identity token when one is present, else
   the access token, tagged provider 'google' exactly when the identity token
   was used and 'oauth' otherwise; when both are absent or empty it returns
   null and no request is made *)
C15_TokenChoice ==
    IsSome(oauthResult) =>
        LET r == Val(oauthResult)
            loginOAuth(token, tag) ==
                Some([endpoint |-> "/api/users/login-oauth", method |-> "POST",
                      body |-> [accessToken |-> token, provider |-> tag]])
        IN /\ NonEmpty(r.idToken) =>
                 nativeFetch = loginOAuth(Val(r.idToken), "google")
           /\ (~NonEmpty(r.idToken) /\ NonEmpty(r.accessToken)) =>
                 nativeFetch = loginOAuth(Val(r.accessToken), "oauth")
           /\ (~NonEmpty(r.idToken) /\ ~NonEmpty(r.accessToken)) =>
                 /\ nativeFetch = None
                 /\ npc = "done"
                 /\ nresult = NativeReturned("null")

(* exchangeOAuthToken({accessToken, idToken}) sent the identity token,
   tagged google, and returned the backend's login response *)
C15_Witness ==
    /\ IsSome(ncall)
    /\ Val(ncall).fn = "exchangeOAuthToken"
    /\ oauthResult = Some([accessToken |-> Some("oauth-access-token"),
                           idToken |-> Some("google-id-token")])
    /\ IsSome(nativeFetch)
    /\ Val(nativeFetch).body = [accessToken |-> "google-id-token", provider |-> "google"]
    /\ nresult = NativeReturned("login")

(* the native sign-in failed before authorize and before any backend request *)
FailedBeforeAuthorize ==
    /\ npc = "done"
    /\ NativeThrown
    /\ authorizeCall = None
    /\ oauthResult = None
    /\ nativeFetch = None

(* C17 (as stated): a native sign-in fails with an error naming the provider
   when the provider's client identifier is absent, and with an error naming
   redirectUri when the redirect URI is absent or empty, in both cases before
   authorize is invoked and without a backend request *)
C17_MissingFieldNamed ==
    IsSignInNative =>
        LET c == Val(ncall)
            idAbsent == ~NonEmpty(SuppliedClientId(c.provider, c.nativeConfig))
            uriAbsent == ~NonEmpty(c.nativeConfig.redirectUri)
        IN /\ idAbsent =>
                 FailedBeforeAuthorize /\ Contains(Val(nresult).value, c.provider)
           /\ uriAbsent =>
                 FailedBeforeAuthorize /\ Contains(Val(nresult).value, "redirectUri")

(* C17 (amended): the client identifier is checked first.  A native sign-in
   fails with an error naming the provider, and not redirectUri, when no
   client identifier is found for the provider (absent or empty; none is ever
   found for facebook); it fails with an error naming redirectUri when a
   client identifier is found and the redirect URI is absent or empty; in both
   cases before authorize is invoked and without a backend request *)
C17_ClientIdCheckedFirst ==
    IsSignInNative =>
        LET c == Val(ncall)
            idMissing == \/ c.provider = "facebook"
                         \/ ~NonEmpty(SuppliedClientId(c.provider, c.nativeConfig))
            uriAbsent == ~NonEmpty(c.nativeConfig.redirectUri)
        IN /\ idMissing =>
                 /\ FailedBeforeAuthorize
                 /\ Contains(Val(nresult).value, c.provider)
                 /\ ~Contains(Val(nresult).value, "redirectUri")
           /\ (~idMissing /\ uriAbsent) =>
                 /\ FailedBeforeAuthorize
                 /\ Contains(Val(nresult).value, "redirectUri")

(* discord without client identifier and without redirect URI: the error
   names discord *)
C17_Witness ==
    /\ IsSignInNative
    /\ Val(ncall).provider = "discord"
    /\ Val(ncall).nativeConfig.discordClientId = None
    /\ Val(ncall).nativeConfig.redirectUri = None
    /\ FailedBeforeAuthorize
    /\ Val(nresult).value =
          "Missing client ID for discord. Please provide discordClientId in nativeConfig."

(* C18: for each of google, discord, github and facebook, a native sign-in
   given a client identifier for the provider and a redirect URI passes the
   checks, hands authorize the provider's endpoints (the issuer for google,
   the authorization/token endpoint pair for the others) and, once authorize
   succeeded with a usable token, sends the exchange to the backend *)
C18_ProviderEndpoints ==
    (/\ IsSignInNative
     /\ sdkInstalled
     /\ NonEmpty(SuppliedClientId(Val(ncall).provider, Val(ncall).nativeConfig))
     /\ NonEmpty(Val(ncall).nativeConfig.redirectUri)) =>
        LET provider == Val(ncall).provider
        IN /\ npc # "importing" => IsSome(authorizeCall)
           /\ IsSome(authorizeCall) =>
                 IF provider = "google"
                 THEN /\ "issuer" \in DOMAIN Val(authorizeCall)
                      /\ Val(authorizeCall).issuer = "https://accounts.google.com"
                 ELSE /\ "serviceConfiguration" \in DOMAIN Val(authorizeCall)
                      /\ Some(Val(authorizeCall).serviceConfiguration) =
                            OAUTH_CONFIGS[provider].serviceConfiguration
           /\ (IsSome(oauthResult) /\ tokenToExchange(Val(oauthResult)) # "") =>
                 IsSome(nativeFetch)

(* C20: react-native-app-auth is loaded only once an operation that needs it
   was invoked, never when the module is loaded or the repository created;
   when it is absent the other operations remain callable and a native
   sign-in that passed its checks fails with the 'not installed' error *)
C20_LazySdks ==
    /\ sdkLoaded => nativeCallsMade > 0
    /\ ~sdkInstalled => entry # "failed"
    /\ (~sdkInstalled /\ IsSignInNative /\ npc = "done"
          /\ ValidateNativeConfig(Val(ncall).provider, Val(ncall).nativeConfig) = None) =>
            nresult = NativeThrew(NotInstalledMessage)

-----------------------------------------------------------------------------
(* Query field builder (utils/fields.ts) *)

MaxFields == 3

ArticlePresets == {"minimal", "standard", "full"}

(* FIELD_PRESETS of the source with 'mods' added to the minimal preset *)
FIELD_PRESETS_MinimalWithMods ==
    [preset \in ArticlePresets |->
        CASE preset = "minimal" -> <<"id", "title", "slug", "mainImage", "mods">>
          [] preset = "standard" ->
               <<"id", "title", "slug", "description", "ver", "mainImage", "coverImage",
                 "author", "tags", "platforms", "categories", "creators", "engine",
                 "favoritesCount", "favorited", "createdAt", "updatedAt", "status",
                 "sequentialCode", "images">>
          [] preset = "full" ->
               <<"id", "title", "slug", "description", "body", "ver", "mainImage",
                 "coverImage", "backgroundImage", "author", "tags", "platforms",
                 "categories", "creators", "engine", "images", "favoritesCount",
                 "favorited", "createdAt", "updatedAt", "status", "sequentialCode">>]

FIELD_PRESETS ==
    [preset \in ArticlePresets |->
        CASE preset = "minimal" -> <<"id", "title", "slug", "mainImage">>
          [] preset = "standard" ->
               <<"id", "title", "slug", "description", "ver", "mainImage", "coverImage",
                 "author", "tags", "platforms", "categories", "creators", "engine",
                 "favoritesCount", "favorited", "createdAt", "updatedAt", "status",
                 "sequentialCode", "images">>
          [] preset = "full" ->
               <<"id", "title", "slug", "description", "body", "ver", "mainImage",
                 "coverImage", "backgroundImage", "author", "tags", "platforms",
                 "categories", "creators", "engine", "images", "favoritesCount",
                 "favorited", "createdAt", "updatedAt", "status", "sequentialCode">>]

(* the fields FIELD_MAPPINGS maps to their own name *)
ScalarFields ==
    {"id", "title", "slug", "description", "body", "ver", "mainImage", "coverImage",
     "backgroundImage", "createdAt", "updatedAt", "status", "sequentialCode",
     "favoritesCount", "favorited"}

(* the relation fields selecting id and name *)
NamedEntityFields == {"engine", "creators", "tags", "platforms", "categories"}

ArticleFields == ScalarFields \cup NamedEntityFields \cup {"author", "images", "mods"}

FIELD_MAPPINGS ==
    [field \in ArticleFields |->
        CASE field \in ScalarFields -> field
          [] field \in NamedEntityFields -> field \o " {\n    id\n    name\n  }"
          [] field = "author" -> "author {\n    id\n    name\n    image\n  }"
          [] field = "images" -> "images {\n    id\n    url\n  }"
          [] field = "mods" ->
               "mods {\n    id\n    name\n    description\n    creditTo\n    downloadLink\n"
               \o "    version\n    status\n    categories {\n      id\n      name\n    }\n"
               \o "    images {\n      id\n      url\n    }\n  }"]

(* FIELD_MAPPINGS[field]: <<>> is undefined *)
LookupMapping(field) ==
    IF field \in DOMAIN FIELD_MAPPINGS THEN Some(FIELD_MAPPINGS[field]) ELSE None

(* Array.prototype.join *)
RECURSIVE JoinSeq(_, _)
JoinSeq(strings, separator) ==
    IF Len(strings) = 0 THEN ""
    ELSE IF Len(strings) = 1 THEN strings[1]
    ELSE strings[1] \o separator \o JoinSeq(Tail(strings), separator)

(* selectedFields merging the custom fields into the preset *)
selectedFieldsMergedWithPreset(options) ==
    FIELD_PRESETS[IF IsSome(options.preset) THEN Val(options.preset) ELSE "standard"]
    \o (IF IsSome(options.fields) THEN Val(options.fields) ELSE <<>>)

(* `const { preset = 'standard', fields } = options;
    const selectedFields = fields ?? FIELD_PRESETS[preset]` *)
selectedFields(options) ==
    LET preset == IF IsSome(options.preset) THEN Val(options.preset) ELSE "standard"
    IN IF IsSome(options.fields) THEN Val(options.fields) ELSE FIELD_PRESETS[preset]

(* .map((field) => FIELD_MAPPINGS[field]).filter(Boolean) *)
selectedFragments(options) ==
    LET mapped == [i \in 1..Len(selectedFields(options)) |->
                      LookupMapping(selectedFields(options)[i])]
        kept == SelectSeq(mapped, IsSome)
    IN [i \in 1..Len(kept) |-> Val(kept[i])]

(* .join('\n  ') *)
buildFieldsQuery(options) == JoinSeq(selectedFragments(options), "\n  ")

(* the identifiers a caller puts in a custom list: mapped fields of and outside
   the presets, and one without mapping *)
FieldInputs == {"id", "title", "engine", "mods", "unknownField"}

(* a preset or none, a custom list of up to MaxFields identifiers or none *)
FieldQueryOptions ==
    [preset : {None} \cup {Some(p) : p \in ArticlePresets},
     fields : {None} \cup
              {Some(l) : l \in UNION {[1..n -> FieldInputs] : n \in 0..MaxFields}}]

-----------------------------------------------------------------------------
(* The utility functions, applied one at a time *)

UtilInit ==
    /\ config = DEFAULT_CONFIG
    /\ origin = [fn |-> "none", token |-> None, overrides |-> NoOverrides]
    /\ TransportIdle
    /\ AuthIdle
    /\ NativeAbsent
    /\ UtilIdle

BuildFieldsQuery ==
    /\ ucall = None
    /\ \E options \in FieldQueryOptions :
         /\ ucall' = Some([fn |-> "buildFieldsQuery", options |-> options])
         /\ uout' = Some(buildFieldsQuery(options))
    /\ UNCHANGED <<tvars, avars, nvars>>

MaxDepth == 3

(* CDN bases a configuration can carry: the default, another absolute base, and
   a path on the serving host (the configuration is not validated) *)
CdnBases == {CDN_URL, "http://localhost:9000/cdn", "/cdn"}

ImageUrlInputs ==
    {JNull, JUndef} \cup
    {JStr(s) : s \in {"", "abc.jpg", "uploads/abc.jpg", "/abc.jpg", "httpx.jpg",
                      "http://example.com/image.jpg", "https://example.com/image.jpg",
                      "HTTPS://EXAMPLE.COM/IMAGE.JPG", "ftp://example.com/image.jpg"}}

ResolveImageUrl ==
    /\ ucall = None
    /\ \E value \in ImageUrlInputs, cdnUrl \in CdnBases :
         /\ ucall' = Some([fn |-> "resolveImageUrl", value |-> value, cdnUrl |-> cdnUrl,
                           passes |-> 1, previous |-> None])
         /\ uout' = Some(resolveImageUrl(value, cdnUrl))
    /\ UNCHANGED <<tvars, avars, nvars>>

(* nested values of depth at most d: leaves, one-element arrays, one-key
   objects (a recognized image field, the images array, the url of its
   elements, an unrecognized key), and objects mixing a recognized and an
   unrecognized key *)
RECURSIVE NestedValues(_)
NestedValues(d) ==
    LET LeafValues == {JNull, JStr("abc.jpg"), JStr("https://example.com/image.jpg")}
        FixtureKeys == {"mainImage", "images", "url", "title"}
    IN
    IF d = 0 THEN LeafValues
    ELSE LET inner == NestedValues(d - 1)
         IN LeafValues
            \cup {JArr(<<x>>) : x \in inner}
            \cup {JObj([k \in {key} |-> x]) : key \in FixtureKeys, x \in inner}
            \cup {JObj([k \in {"image", "title"} |-> IF k = "image" THEN leaf ELSE x]) :
                      leaf \in LeafValues, x \in inner}

TransformImageUrlsDeep ==
    /\ ucall = None
    /\ \E value \in NestedValues(MaxDepth) \cup {JUndef}, cdnUrl \in CdnBases :
         /\ ucall' = Some([fn |-> "transformImageUrlsDeep", value |-> value,
                           cdnUrl |-> cdnUrl, passes |-> 1, previous |-> None])
         /\ uout' = Some(transformImageUrlsDeep(value, cdnUrl))
    /\ UNCHANGED <<tvars, avars, nvars>>

(* the pass applied to its own result *)
TransformAgain ==
    /\ IsSome(ucall)
    /\ Val(ucall).fn = "transformImageUrlsDeep"
    /\ Val(ucall).passes = 1
    /\ ucall' = Some([Val(ucall) EXCEPT !.passes = 2, !.previous = uout])
    /\ uout' = Some(transformImageUrlsDeep(Val(uout), Val(ucall).cdnUrl))
    /\ UNCHANGED <<tvars, avars, nvars>>

(* the caller takes the returned value *)
UtilReturn ==
    /\ ucall # None
    /\ ucall' = None
    /\ uout' = None
    /\ UNCHANGED <<tvars, avars, nvars>>

UtilNext ==
    \/ BuildFieldsQuery
    \/ ResolveImageUrl
    \/ TransformImageUrlsDeep
    \/ TransformAgain
    \/ UtilReturn

UtilSpec == UtilInit /\ [][UtilNext]_vars

-----------------------------------------------------------------------------
(* Properties of the utility functions *)

IsUtil(fn) == IsSome(ucall) /\ Val(ucall).fn = fn

(* the elements of a sequence *)
Range(s) == {s[i] : i \in 1..Len(s)}

(* C25: buildFieldsQuery returns the fragments of the selected identifiers in
   the order given, joined by newlines (each followed by the two-space
   indentation); the selected identifiers are the supplied fields whenever
   fields is supplied, also when empty, the preset then being ignored, and
   otherwise those of the preset, standard by default; identifiers without a
   mapping are dropped and no fragment of an unselected identifier appears *)
C25_SelectedFragments ==
    IsUtil("buildFieldsQuery") =>
        LET options == Val(ucall).options
            selected ==
                IF IsSome(options.fields) THEN Val(options.fields)
                ELSE IF IsSome(options.preset) THEN FIELD_PRESETS[Val(options.preset)]
                ELSE FIELD_PRESETS["standard"]
            Known(field) == field \in ArticleFields
            known == SelectSeq(selected, Known)
            fragments == [i \in 1..Len(known) |-> FIELD_MAPPINGS[known[i]]]
        IN /\ uout = Some(JoinSeq(fragments, "\n  "))
           /\ Range(fragments) = {FIELD_MAPPINGS[f] : f \in Range(selected) \cap ArticleFields}
           /\ options.fields = Some(<<>>) => uout = Some("")

(* a custom list with an unmapped identifier, given together with the full
   preset: the two mapped fragments only, in the order given *)
C25_Witness ==
    /\ IsUtil("buildFieldsQuery")
    /\ Val(ucall).options = [preset |-> Some("full"),
                             fields |-> Some(<<"engine", "unknownField", "id">>)]
    /\ uout = Some("engine {\n    id\n    name\n  }\n  id")

(* the set of fragments buildFieldsQuery joins for the given options *)
FragmentsOf(options) == Range(selectedFragments(options))

PresetOnly(preset) == [preset |-> Some(preset), fields |-> None]

(* C26: the set of fragments buildFieldsQuery produces for the minimal preset
   is a proper subset of the set it produces for the full preset *)
C26_MinimalWithinFull ==
    (IsUtil("buildFieldsQuery") /\ Val(ucall).options = PresetOnly("minimal")) =>
        /\ uout = Some(JoinSeq(selectedFragments(PresetOnly("minimal")), "\n  "))
        /\ FragmentsOf(PresetOnly("minimal")) \subseteq FragmentsOf(PresetOnly("full"))
        /\ FragmentsOf(PresetOnly("minimal")) # FragmentsOf(PresetOnly("full"))
        /\ Cardinality(FragmentsOf(PresetOnly("minimal"))) = 4
        /\ Cardinality(FragmentsOf(PresetOnly("full"))) = 22

C26_Witness ==
    /\ IsUtil("buildFieldsQuery")
    /\ Val(ucall).options = PresetOnly("minimal")
    /\ uout = Some("id\n  title\n  slug\n  mainImage")

(* C27: resolveImageUrl returns null for a null or absent input, the input
   itself for every string beginning with http:// or https://, and
   cdnBase + '/' + value for every other string, internal path segments kept *)
C27_ResolveImageUrl ==
    IsUtil("resolveImageUrl") =>
        LET value == Val(ucall).value
            cdnUrl == Val(ucall).cdnUrl
            Begins(prefix) ==
                Len(value.v) >= Len(prefix) /\ SubSeq(value.v, 1, Len(prefix)) = prefix
        IN /\ value.t \in {"null", "undefined"} => uout = Some(JNull)
           /\ (value.t = "str" /\ (Begins("http://") \/ Begins("https://"))) =>
                  uout = Some(value)
           /\ (value.t = "str" /\ ~Begins("http://") /\ ~Begins("https://")) =>
                  uout = Some(JStr(cdnUrl \o "/" \o value.v))

C27_Witness ==
    /\ IsUtil("resolveImageUrl")
    /\ Val(ucall).value = JStr("uploads/abc.jpg")
    /\ Val(ucall).cdnUrl = "https://cdn.chanomhub.com"
    /\ uout = Some(JStr("https://cdn.chanomhub.com/uploads/abc.jpg"))

AppliedTwice == IsUtil("transformImageUrlsDeep") /\ Val(ucall).passes = 2

AbsoluteBase(cdnUrl) == StartsWith(cdnUrl, "http://") \/ StartsWith(cdnUrl, "https://")

(* C28 as stated: for every nested value and every CDN base, the pass applied
   to its own result returns that result *)
C28_IdempotentForEveryBase == AppliedTwice => uout = Val(ucall).previous

(* C28, amended: for every nested value and every CDN base beginning with
   http:// or https://, the pass applied to its own result returns that result;
   with any other base, a value holding no relative image reference is
   returned unchanged by both passes *)
C28_IdempotentForAbsoluteBase ==
    /\ (AppliedTwice /\ AbsoluteBase(Val(ucall).cdnUrl)) => uout = Val(ucall).previous
    /\ (AppliedTwice /\ Val(ucall).previous = Some(Val(ucall).value)) =>
           uout = Val(ucall).previous

C28_Witness ==
    /\ AppliedTwice
    /\ Val(ucall).cdnUrl = "https://cdn.chanomhub.com"
    /\ Val(ucall).value =
           JObj([k \in {"images"} |-> JArr(<<JObj([j \in {"url"} |-> JStr("abc.jpg")])>>)])
    /\ uout = Val(ucall).previous
    /\ uout = Some(JObj([k \in {"images"} |->
                   JArr(<<JObj([j \in {"url"} |->
                                  JStr("https://cdn.chanomhub.com/abc.jpg")])>>)]))

-----------------------------------------------------------------------------
(* C30: in signInWithProviderNative the backend exchange request is issued
   only after the native authorization flow has succeeded; when that flow
   fails, no backend request is issued and the failure reaches the caller as a
   thrown error, not as a null return *)
C30_ExchangeAfterAuthorize ==
    IsSignInNative =>
        /\ IsSome(nativeFetch) =>
              /\ IsSome(authorizeCall)
              /\ IsSome(oauthResult)
              /\ nativeFetch = Some(LoginOAuthRequest(Val(oauthResult)))
        /\ npc \in {"importing", "authorizing"} => nativeFetch = None
        /\ (npc = "done" /\ IsSome(authorizeCall) /\ oauthResult = None) =>
              /\ nativeFetch = None
              /\ \E e \in AuthorizeErrors : nresult = NativeThrew(e)

C30_Witness ==
    /\ IsSignInNative
    /\ Val(ncall).provider = "github"
    /\ npc = "done"
    /\ IsSome(authorizeCall)
    /\ oauthResult = None
    /\ nativeFetch = None
    /\ nresult = NativeThrew("User cancelled flow")

=============================================================================
